---- MODULE Spec2Model ----
(***************************************************************************)
(* A model of the IPQS flat-file reader: the header / column / tree-header *)
(* parsers, the streaming walker (FileReader::fetch), the resident walker  *)
(* (MemoryReader::fetch) and the two leaf decoders, over files that are    *)
(* sequences of bytes.  File offset o is index o + 1 of the sequence.      *)
(***************************************************************************)
EXTENDS Integers, Sequences, FiniteSets, TLC

VARIABLES
    file,     \* the bytes of the database file (never written after Init)
    fr,       \* the FileReader: [state, err, binary_data, is_v6, ...]
    mr,       \* the MemoryReader: [state, err, binary_data, is_v6, ...]
    cursor,   \* position of the FileReader's stream (Seek / Read state)
    ip,       \* the address of the fetch call in progress, or NoIp
    turn,     \* which call comes next: "none", "file", "memory" or "done"
    fw,       \* the locals FileReader::fetch ended with (position, file_position, ...)
    mw,       \* the locals MemoryReader::fetch ended with (bit_position, ...)
    fres,     \* outcome of the last FileReader::fetch
    mres,     \* outcome of the last MemoryReader::fetch
    calls,    \* number of FileReader::fetch calls made on fr so far
    threads,  \* the MemoryReader::fetch calls that run concurrently: their locals
    arg,      \* the argument of a call of a free function (uvarint64, next_node)
    ret       \* what that call returned

vars == <<file, fr, mr, cursor, ip, turn, fw, mw, fres, mres, calls, threads, arg, ret>>

\* the state of the calls that run on their own
aside == <<threads, arg, ret>>

----------------------------------------------------------------------------
(* Bounds of the model.                                                    *)

\* number of 8-byte nodes in the tree body of a generated file
NumNodes == 2
\* number of leading address bits that are enumerated (the rest is a fill bit)
PrefixLen == 2
\* number of bytes that follow a varint's terminator inside its slice
MaxSurplus == 2

\* fetches made on one streaming reader
MaxCalls == 2

\* calls of MemoryReader::fetch in flight on one reader
NumThreads == 2

----------------------------------------------------------------------------
(* Program constants.                                                      *)

RUST_IPQS_READER_VERSION == 1
IPV4_MAP == 1
IPV6_MAP == 2
BLACKLIST_FILE == 4
BINARY_DATA == 128
COLUMN_DESCRIPTOR_LENGTH == 24
MAX_VAR_INT_LEN_64 == 10
\* the slice `[11; 0xff]` of the test too_long
TOO_LONG_BYTE == 11
TOO_LONG_LEN == 255

TREE_DATA == 4
STRING_DATA == 8
SMALL_INT_DATA == 16
INT_DATA == 32
FLOAT_DATA == 64
CONNECTION_MASK == 56
ABUSE_VELOCITY_MASK == 192

\* the 257 of `for _ in 0..257`
MAX_ITERATIONS == 257
\* the 128 of `let mut previous = [0; 128]`
PREVIOUS_LEN == 128
\* u128::BITS
U128_BITS == 128
\* the 11 of `let mut header = [0; 11]` and of `header_size - 11`
HEADER_LEN == 11
\* the 5 of `vec![0; 5]` and of `tree_start + 5`
TREE_HEADER_LEN == 5
\* the 8 of `vec![0u8; 8]`
NODE_LEN == 8
\* u64::BITS, the width of the accumulator `let mut x: u64`
U64_BITS == 64
\* address lengths: 4 octets and 8 segments
V4_BITS == 32
V6_BITS == 128

----------------------------------------------------------------------------
(* Bytes and integers.                                                     *)

Byte == 0..255

RECURSIVE Pow2(_)
Pow2(n) == IF n = 0 THEN 1 ELSE 2 * Pow2(n - 1)

\* a & b on bytes
RECURSIVE BitAnd(_, _)
BitAnd(a, b) ==
    IF a = 0 \/ b = 0 THEN 0
    ELSE (a % 2) * (b % 2) + 2 * BitAnd(a \div 2, b \div 2)

\* BinaryOption::has
has(data, flag) == BitAnd(data, flag) # 0

\* bytes [a, b) of a sequence; the caller checks the range
Slice(data, a, b) == SubSeq(data, a + 1, b)

InRange(data, a, b) == 0 <= a /\ a <= b /\ b <= Len(data)

\* utility::four_byte_int: little-endian u32
four_byte_int(bytes) ==
    bytes[1] + 256 * bytes[2] + 65536 * bytes[3] + 16777216 * bytes[4]

Ok(v) == [tag |-> "ok", val |-> v]
Err(e) == [tag |-> "err", err |-> e]
Panic(e) == [tag |-> "panic", err |-> e]

\* A u64 is the set of the exponents of its set bits.
\* (byte as u64) << s: the bits moved past bit 63 are lost
ShlByte(byte, s) ==
    {s + k : k \in {j \in 0..7 : (byte \div Pow2(j)) % 2 = 1}} \cap (0..(U64_BITS - 1))

\* the value of a u64 that fits the model's integers
RECURSIVE U64Value(_)
U64Value(x) ==
    IF x = {} THEN 0
    ELSE LET e == CHOOSE e \in x : TRUE IN Pow2(e) + U64Value(x \ {e})

\* a loop over the bytes that moves on by 8 bits a byte
RECURSIVE uvarint64_loop_by_8(_, _, _, _)
uvarint64_loop_by_8(bytes, i, x, s) ==
    IF i >= Len(bytes) THEN Ok(x)
    ELSE LET byte == bytes[i + 1] IN
         IF byte < 128
         THEN IF i = MAX_VAR_INT_LEN_64 - 1 /\ byte > 1
              THEN Err("overflow")
              ELSE Ok(x \cup ShlByte(byte, s))
         ELSE uvarint64_loop_by_8(bytes, i + 1, x \cup ShlByte(BitAnd(byte, 127), s), s + 8)

\* the loop of variable_length_int::uvarint64 from byte i on, x and s being
\* its accumulator and shift; a slice that ends without a terminator leaves
\* the loop and returns Ok(x)
RECURSIVE uvarint64_loop(_, _, _, _)
uvarint64_loop(bytes, i, x, s) ==
    IF i >= Len(bytes) THEN Ok(x)
    ELSE LET byte == bytes[i + 1] IN
         IF byte < 128
         THEN IF i = MAX_VAR_INT_LEN_64 - 1 /\ byte > 1
              THEN Err("overflow")
              ELSE Ok(x \cup ShlByte(byte, s))
         ELSE uvarint64_loop(bytes, i + 1, x \cup ShlByte(BitAnd(byte, 127), s), s + 7)

\* variable_length_int::uvarint64
uvarint64(bytes) ==
    IF Len(bytes) > MAX_VAR_INT_LEN_64
    THEN Err("catch byte reads past MaxVarIntLen64")
    ELSE uvarint64_loop(bytes, 0, {}, 0)

\* `uvarint64(..)?.try_into()?` to usize, which holds every u64
try_into_usize(decoded) ==
    IF decoded.tag # "ok" THEN decoded ELSE Ok(U64Value(decoded.val))

----------------------------------------------------------------------------
(* Options, and strings as sequences of bytes.                             *)

None == <<>>
Some(x) == <<x>>

\* std::str::from_utf8 accepts exactly the well-formed UTF-8 sequences
IsCont(b) == 128 <= b /\ b <= 191

RECURSIVE valid_utf8(_, _)
valid_utf8(bytes, i) ==
    IF i > Len(bytes) THEN TRUE
    ELSE LET b == bytes[i]
             n == Len(bytes)
             c1 == IF i + 1 <= n THEN bytes[i + 1] ELSE 0
             c2 == IF i + 2 <= n THEN bytes[i + 2] ELSE 0
             c3 == IF i + 3 <= n THEN bytes[i + 3] ELSE 0
         IN IF b < 128 THEN valid_utf8(bytes, i + 1)
            ELSE IF 194 <= b /\ b <= 223
                 THEN IsCont(c1) /\ valid_utf8(bytes, i + 2)
            ELSE IF 224 <= b /\ b <= 239
                 THEN /\ IsCont(c1) /\ IsCont(c2)
                      /\ (b = 224 => c1 >= 160)
                      /\ (b = 237 => c1 <= 159)
                      /\ valid_utf8(bytes, i + 3)
            ELSE IF 240 <= b /\ b <= 244
                 THEN /\ IsCont(c1) /\ IsCont(c2) /\ IsCont(c3)
                      /\ (b = 240 => c1 >= 144)
                      /\ (b = 244 => c1 <= 143)
                      /\ valid_utf8(bytes, i + 4)
            ELSE FALSE

\* str::trim_end_matches(char::from(0x00))
RECURSIVE trim_end_nul(_)
trim_end_nul(bytes) ==
    IF Len(bytes) > 0 /\ bytes[Len(bytes)] = 0
    THEN trim_end_nul(SubSeq(bytes, 1, Len(bytes) - 1))
    ELSE bytes

\* the recognised column names, as ASCII
NAME_ASN == <<65, 83, 78>>
NAME_Latitude == <<76, 97, 116, 105, 116, 117, 100, 101>>
NAME_Longitude == <<76, 111, 110, 103, 105, 116, 117, 100, 101>>
NAME_ZeroFraudScore == <<90, 101, 114, 111, 70, 114, 97, 117, 100, 83, 99, 111, 114, 101>>
NAME_OneFraudScore == <<79, 110, 101, 70, 114, 97, 117, 100, 83, 99, 111, 114, 101>>
NAME_TwoFraudScore == <<84, 119, 111, 70, 114, 97, 117, 100, 83, 99, 111, 114, 101>>
NAME_ThreeFraudScore == <<84, 104, 114, 101, 101, 70, 114, 97, 117, 100, 83, 99, 111, 114, 101>>
NAME_Country == <<67, 111, 117, 110, 116, 114, 121>>
NAME_City == <<67, 105, 116, 121>>
NAME_Region == <<82, 101, 103, 105, 111, 110>>
NAME_ISP == <<73, 83, 80>>
NAME_Organization == <<79, 114, 103, 97, 110, 105, 122, 97, 116, 105, 111, 110>>
NAME_Timezone == <<84, 105, 109, 101, 122, 111, 110, 101>>

----------------------------------------------------------------------------
(* Header parsers (parse.rs), used by the resident reader.                 *)

\* 2^64 mod 24: `header_size - 11` wraps to 2^64 + header_size - 11 in a build
\* without overflow checks
WrappedColumnsLengthMod(tree_start) ==
    (16 + tree_start - HEADER_LEN + COLUMN_DESCRIPTOR_LENGTH) % COLUMN_DESCRIPTOR_LENGTH

\* FileHeader::parse; overflow_checks is the build's setting
FileHeader_parse(header, overflow_checks) ==
    LET binary_data == has(header[1], BINARY_DATA)
        is_v6 == has(header[1], IPV6_MAP)
        is_valid == (is_v6 # has(header[1], IPV4_MAP))
        is_blacklist == has(header[1], BLACKLIST_FILE)
        tree_start == try_into_usize(uvarint64(Slice(header, 2, 5)))
        record_bytes == try_into_usize(uvarint64(Slice(header, 5, 7)))
    IN IF ~is_valid THEN Err("EID1")
       ELSE IF header[2] # RUST_IPQS_READER_VERSION THEN Err("EID2")
       ELSE IF tree_start.tag = "err" THEN tree_start
       ELSE IF tree_start.val = 0 THEN Err("EID3")
       ELSE IF tree_start.val < HEADER_LEN /\ overflow_checks
            THEN Panic("attempt to subtract with overflow")
       ELSE IF tree_start.val < HEADER_LEN /\ WrappedColumnsLengthMod(tree_start.val) = 0
            THEN Panic("wrapped column block length")
       ELSE IF tree_start.val < HEADER_LEN THEN Err("EID5")
       ELSE IF tree_start.val - HEADER_LEN = 0 THEN Err("EID4")
       ELSE IF (tree_start.val - HEADER_LEN) % COLUMN_DESCRIPTOR_LENGTH # 0 THEN Err("EID5")
       ELSE IF record_bytes.tag = "err" THEN record_bytes
       ELSE IF record_bytes.val = 0 THEN Err("EID6")
       ELSE Ok([binary_data |-> binary_data,
                is_v6 |-> is_v6,
                is_blacklist |-> is_blacklist,
                tree_start |-> tree_start.val,
                columns_bytes_length |-> tree_start.val - HEADER_LEN,
                record_bytes_length |-> record_bytes.val])

\* the loop of ColumnsBlock::parse (and of FileReader::from_reader) from column c on
RECURSIVE parse_columns(_, _, _)
parse_columns(column_bytes, number_of_columns, c) ==
    IF c >= number_of_columns THEN Ok(<<>>)
    ELSE LET b == c * COLUMN_DESCRIPTOR_LENGTH
             e == (c + 1) * COLUMN_DESCRIPTOR_LENGTH - 1
             raw_name == Slice(column_bytes, b, e)
             rest == parse_columns(column_bytes, number_of_columns, c + 1)
         IN IF ~valid_utf8(raw_name, 1) THEN Err("invalid utf-8")
            ELSE IF rest.tag # "ok" THEN rest
            ELSE Ok(<<[name |-> trim_end_nul(raw_name),
                       record_type |-> column_bytes[e + 1]]>> \o rest.val)

\* ColumnsBlock::parse
ColumnsBlock_parse(file_header, column_bytes) ==
    parse_columns(column_bytes,
                  file_header.columns_bytes_length \div COLUMN_DESCRIPTOR_LENGTH, 0)

\* TreeHeader::parse; the caller passes the whole tail of the buffer
TreeHeader_parse(file_header, tree_header) ==
    IF Len(tree_header) < 1 THEN Panic("index out of bounds")
    ELSE IF ~has(tree_header[1], TREE_DATA) THEN Err("EID7")
    ELSE IF Len(tree_header) < TREE_HEADER_LEN THEN Panic("range end index out of range")
    ELSE LET total_tree == four_byte_int(Slice(tree_header, 1, 5))
         IN IF total_tree = 0 THEN Err("EID8")
            ELSE Ok([tree_end |-> file_header.tree_start + total_tree])

\* a classifier that always takes the left child
next_node_left(bit, node, tree_start, tree_end) ==
    LET value == four_byte_int(Slice(node, 0, 4))
    IN IF value < tree_start THEN [kind |-> "Missing", at |-> 0]
       ELSE IF value >= tree_end THEN [kind |-> "Record", at |-> value]
       ELSE [kind |-> "NextNode", at |-> value]

\* parse::next_node
next_node(bit, node, tree_start, tree_end) ==
    LET value == IF bit THEN four_byte_int(Slice(node, 4, 8))
                 ELSE four_byte_int(Slice(node, 0, 4))
    IN IF value < tree_start THEN [kind |-> "Missing", at |-> 0]
       ELSE IF value >= tree_end THEN [kind |-> "Record", at |-> value]
       ELSE [kind |-> "NextNode", at |-> value]

----------------------------------------------------------------------------
(* The resident reader's column layout and construction (memory_reader.rs) *)

\* memory_reader::column_size
column_size(column) ==
    IF \/ has(column.record_type, STRING_DATA)
       \/ has(column.record_type, INT_DATA)
       \/ has(column.record_type, FLOAT_DATA)
    THEN 4
    ELSE 1

NoColumns ==
    [asn |-> None, latitude |-> None, longitude |-> None,
     fraud_score |-> <<None, None, None, None>>,
     country |-> None, city |-> None, region |-> None, isp |-> None,
     organization |-> None, timezone |-> None]

\* one arm of the match in Columns::new
Columns_assign(acc, name, column_offset) ==
    IF name = NAME_ASN THEN [acc EXCEPT !.asn = Some(column_offset)]
    ELSE IF name = NAME_Latitude THEN [acc EXCEPT !.latitude = Some(column_offset)]
    ELSE IF name = NAME_Longitude THEN [acc EXCEPT !.longitude = Some(column_offset)]
    ELSE IF name = NAME_ZeroFraudScore
         THEN [acc EXCEPT !.fraud_score[1] = Some(column_offset)]
    ELSE IF name = NAME_OneFraudScore
         THEN [acc EXCEPT !.fraud_score[2] = Some(column_offset)]
    ELSE IF name = NAME_TwoFraudScore
         THEN [acc EXCEPT !.fraud_score[3] = Some(column_offset)]
    ELSE IF name = NAME_ThreeFraudScore
         THEN [acc EXCEPT !.fraud_score[4] = Some(column_offset)]
    ELSE IF name = NAME_Country THEN [acc EXCEPT !.country = Some(column_offset)]
    ELSE IF name = NAME_City THEN [acc EXCEPT !.city = Some(column_offset)]
    ELSE IF name = NAME_Region THEN [acc EXCEPT !.region = Some(column_offset)]
    ELSE IF name = NAME_ISP THEN [acc EXCEPT !.isp = Some(column_offset)]
    ELSE IF name = NAME_Organization
         THEN [acc EXCEPT !.organization = Some(column_offset)]
    ELSE IF name = NAME_Timezone THEN [acc EXCEPT !.timezone = Some(column_offset)]
    ELSE acc

RECURSIVE Columns_loop(_, _, _, _)
Columns_loop(columns, i, column_offset, acc) ==
    IF i > Len(columns) THEN acc
    ELSE Columns_loop(columns, i + 1, column_offset + column_size(columns[i]),
                      Columns_assign(acc, columns[i].name, column_offset))

\* Columns::new
Columns_new(file_header, columns) ==
    Columns_loop(columns, 1, IF file_header.binary_data THEN 3 ELSE 1, NoColumns)

ClosedReader ==
    [state |-> "closed", err |-> "", binary_data |-> FALSE, is_v6 |-> FALSE,
     is_blacklist |-> FALSE, record_bytes |-> 0, tree_start |-> 0, tree_end |-> 0,
     columns |-> <<>>, layout |-> NoColumns]

FailedReader(res) == [ClosedReader EXCEPT !.state = res.tag, !.err = res.err]

\* MemoryReader::from_bytes.  columns keeps the descriptor sequence only for
\* inspection; the reader itself holds `layout` (its Columns).
MemoryReader_from_bytes(data, overflow_checks) ==
    IF Len(data) < HEADER_LEN THEN FailedReader(Panic("mid > len"))
    ELSE LET file_header == FileHeader_parse(Slice(data, 0, HEADER_LEN), overflow_checks)
         IN IF file_header.tag # "ok" THEN FailedReader(file_header)
            ELSE LET h == file_header.val
                     tail == Slice(data, HEADER_LEN, Len(data))
                 IN IF Len(tail) < h.columns_bytes_length
                    THEN FailedReader(Panic("mid > len"))
                    ELSE LET columns == ColumnsBlock_parse(h, Slice(tail, 0, h.columns_bytes_length))
                             tree_header ==
                                 TreeHeader_parse(h, Slice(tail, h.columns_bytes_length, Len(tail)))
                         IN IF columns.tag # "ok" THEN FailedReader(columns)
                            ELSE IF tree_header.tag # "ok" THEN FailedReader(tree_header)
                            ELSE [state |-> "ok", err |-> "",
                                  binary_data |-> h.binary_data,
                                  is_v6 |-> h.is_v6,
                                  is_blacklist |-> h.is_blacklist,
                                  record_bytes |-> h.record_bytes_length,
                                  tree_start |-> h.tree_start,
                                  tree_end |-> tree_header.val.tree_end,
                                  columns |-> columns.val,
                                  layout |-> Columns_new(h, columns.val)]

----------------------------------------------------------------------------
(* The streaming reader's construction (file_reader.rs)                    *)

\* header checks that skip the version comparison
FileReader_header_any_version(header, overflow_checks) ==
    FileHeader_parse([header EXCEPT ![2] = RUST_IPQS_READER_VERSION], overflow_checks)

\* the header checks of FileReader::from_reader (lines 79-119)
FileReader_header(header, overflow_checks) ==
    LET binary_data == has(header[1], BINARY_DATA)
        is_v6 == has(header[1], IPV6_MAP)
        is_valid == (is_v6 # has(header[1], IPV4_MAP))
        is_blacklist == has(header[1], BLACKLIST_FILE)
        tree_start == try_into_usize(uvarint64(Slice(header, 2, 5)))
        record_bytes == try_into_usize(uvarint64(Slice(header, 5, 7)))
    IN IF ~is_valid THEN Err("EID1")
       ELSE IF header[2] # RUST_IPQS_READER_VERSION THEN Err("EID2")
       ELSE IF tree_start.tag = "err" THEN tree_start
       ELSE IF tree_start.val = 0 THEN Err("EID3")
       ELSE IF tree_start.val < HEADER_LEN /\ overflow_checks
            THEN Panic("attempt to subtract with overflow")
       ELSE IF tree_start.val < HEADER_LEN /\ WrappedColumnsLengthMod(tree_start.val) = 0
            THEN Panic("wrapped column block length")
       ELSE IF tree_start.val < HEADER_LEN THEN Err("EID5")
       ELSE IF tree_start.val - HEADER_LEN = 0 THEN Err("EID4")
       ELSE IF (tree_start.val - HEADER_LEN) % 24 # 0 THEN Err("EID5")
       ELSE IF record_bytes.tag = "err" THEN record_bytes
       ELSE IF record_bytes.val = 0 THEN Err("EID6")
       ELSE Ok([binary_data |-> binary_data,
                is_v6 |-> is_v6,
                is_blacklist |-> is_blacklist,
                tree_start |-> tree_start.val,
                columns_bytes_length |-> tree_start.val - HEADER_LEN,
                record_bytes_length |-> record_bytes.val])

\* FileReader::from_reader over a Cursor on `data`.  A read_exact that runs into
\* the end of the data is the I/O error "failed to fill whole buffer".
FileReader_from_reader(data, overflow_checks) ==
    IF Len(data) < HEADER_LEN THEN FailedReader(Err("failed to fill whole buffer"))
    ELSE LET header == FileReader_header(Slice(data, 0, HEADER_LEN), overflow_checks)
         IN IF header.tag # "ok" THEN FailedReader(header)
            ELSE LET h == header.val
                     number_of_columns == h.columns_bytes_length \div 24
                 IN IF Len(data) < h.tree_start
                    THEN FailedReader(Err("failed to fill whole buffer"))
                    ELSE LET columns ==
                                 parse_columns(Slice(data, HEADER_LEN, h.tree_start),
                                               number_of_columns, 0)
                         IN IF columns.tag # "ok" THEN FailedReader(columns)
                            ELSE IF Len(data) < h.tree_start + TREE_HEADER_LEN
                                 THEN FailedReader(Err("failed to fill whole buffer"))
                            ELSE LET tree_header ==
                                         Slice(data, h.tree_start, h.tree_start + TREE_HEADER_LEN)
                                     total_tree == four_byte_int(Slice(tree_header, 1, 5))
                                 IN IF ~has(tree_header[1], TREE_DATA)
                                    THEN FailedReader(Err("EID7"))
                                    ELSE IF total_tree = 0 THEN FailedReader(Err("EID8"))
                                    ELSE [state |-> "ok", err |-> "",
                                          binary_data |-> h.binary_data,
                                          is_v6 |-> h.is_v6,
                                          is_blacklist |-> h.is_blacklist,
                                          record_bytes |-> h.record_bytes_length,
                                          tree_start |-> h.tree_start,
                                          tree_end |-> h.tree_start + total_tree,
                                          columns |-> columns.val,
                                          layout |-> NoColumns]

----------------------------------------------------------------------------
(* Addresses.  An IpAddr is its family and its octets (4 or 16).           *)

NoIp == [v6 |-> FALSE, octets |-> <<>>]

\* the bit sequence built at the top of FileReader::fetch (lines 206-224):
\* octet & (0x80 >> s) for an Ipv4Addr, segment & (0x8000 >> s) for an Ipv6Addr
binary_representation(addr) ==
    IF addr.v6
    THEN [p \in 1..128 |->
            LET segment == 256 * addr.octets[2 * ((p - 1) \div 16) + 1]
                           + addr.octets[2 * ((p - 1) \div 16) + 2]
                s == (p - 1) % 16
            IN (segment \div Pow2(15 - s)) % 2 = 1]
    ELSE [p \in 1..32 |->
            LET octet == addr.octets[(p - 1) \div 8 + 1]
                s == (p - 1) % 8
            IN BitAnd(octet, Pow2(7 - s)) # 0]

\* AddressBits(u128, u32): the u128 is the set of the exponents of its set bits
\* impl From<IpAddr> for AddressBits: from_be_bytes
AddressBits_from(addr) ==
    LET n == IF addr.v6 THEN 16 ELSE 4
    IN [value |-> {e \in 0..(8 * n - 1) :
                     (addr.octets[n - (e \div 8)] \div Pow2(e % 8)) % 2 = 1},
        len |-> IF addr.v6 THEN V6_BITS ELSE V4_BITS]

\* u128::MAX << s; a shift by 128 or more overflows: it panics under overflow
\* checks and shifts by s mod 128 without them
ShlMax(s, overflow_checks) ==
    IF s >= U128_BITS /\ overflow_checks THEN Panic("attempt to shift left with overflow")
    ELSE Ok({e \in 0..(U128_BITS - 1) : e >= s % U128_BITS})

\* AddressBits::bit: the exponent of 1 << (self.1 - index - 1)
AddressBits_bit(self, index) == self.len - index - 1

\* AddressBits::position
AddressBits_position(self, index) == AddressBits_bit(self, index) \in self.value

\* AddressBits::set_branch
AddressBits_set_branch(self, index, overflow_checks) ==
    LET bit == AddressBits_bit(self, index)
        tail == {e \in 0..(U128_BITS - 1) : e < bit}
        mask == ShlMax(self.len - index, overflow_checks)
    IN IF mask.tag # "ok" THEN mask
       ELSE Ok([self EXCEPT !.value = (self.value \cap mask.val) \cup tail])

SetMin(S) == CHOOSE x \in S : \A y \in S : x <= y

\* AddressBits::find_previous_one
AddressBits_find_previous_one(self, index) ==
    LET mask == {e \in 0..(U128_BITS - 1) : e >= self.len - 1 - index}
        masked == self.value \cap mask
        tz == IF masked = {} THEN U128_BITS ELSE SetMin(masked)
    IN IF tz = U128_BITS THEN None ELSE Some(self.len - 1 - tz)

\* AddressBits::try_backtrack: [tag, val |-> [index, bits]]
AddressBits_try_backtrack(self, index, overflow_checks) ==
    LET found == AddressBits_find_previous_one(self, index)
    IN IF found = None THEN Ok([index |-> None, bits |-> self])
       ELSE LET branched == AddressBits_set_branch(self, found[1], overflow_checks)
            IN IF branched.tag # "ok" THEN branched
               ELSE Ok([index |-> found, bits |-> branched.val])

----------------------------------------------------------------------------
(* Leaf decoding.                                                          *)

IS_PROXY == 1
IS_VPN == 2
IS_TOR == 4
IS_CRAWLER == 8
IS_BOT == 16
RECENT_ABUSE == 32
IS_BLACKLISTED == 64
IS_PRIVATE == 128
IS_MOBILE == 1
HAS_OPEN_PORTS == 2
IS_HOSTING_PROVIDER == 4
ACTIVE_VPN == 8
ACTIVE_TOR == 16
PUBLIC_ACCESS_POINT == 32
CONNECTION_TYPE_ONE == 8
CONNECTION_TYPE_TWO == 16
CONNECTION_TYPE_THREE == 32
ABUSE_VELOCITY_ONE == 64
ABUSE_VELOCITY_TWO == 128

\* a decoder that matches the whole byte instead of the three masked bits
connection_type_unmasked(byte) ==
    IF byte = CONNECTION_TYPE_THREE THEN "Residential"
    ELSE IF byte = CONNECTION_TYPE_TWO THEN "Mobile"
    ELSE IF byte = CONNECTION_TYPE_THREE + CONNECTION_TYPE_TWO THEN "Corporate"
    ELSE IF byte = CONNECTION_TYPE_ONE THEN "Data Center"
    ELSE IF byte = CONNECTION_TYPE_THREE + CONNECTION_TYPE_ONE THEN "Education"
    ELSE "Unknown"

\* file_reader::record::connection_type
connection_type(byte) ==
    LET m == BitAnd(byte, CONNECTION_MASK)
    IN IF m = CONNECTION_TYPE_THREE THEN "Residential"
       ELSE IF m = CONNECTION_TYPE_TWO THEN "Mobile"
       ELSE IF m = CONNECTION_TYPE_THREE + CONNECTION_TYPE_TWO THEN "Corporate"
       ELSE IF m = CONNECTION_TYPE_ONE THEN "Data Center"
       ELSE IF m = CONNECTION_TYPE_THREE + CONNECTION_TYPE_ONE THEN "Education"
       ELSE "Unknown"

\* file_reader::record::abuse_velocity
abuse_velocity(byte) ==
    LET m == BitAnd(byte, ABUSE_VELOCITY_MASK)
    IN IF m = ABUSE_VELOCITY_TWO THEN "low"
       ELSE IF m = ABUSE_VELOCITY_ONE THEN "medium"
       ELSE IF m = ABUSE_VELOCITY_ONE + ABUSE_VELOCITY_TWO THEN "high"
       ELSE "none"

\* Record::default() of the streaming reader (its `columns` vector of printed
\* values is no accessor and is left out)
DefaultRecord ==
    [connection_type |-> "", abuse_velocity |-> "",
     country |-> None, city |-> None, region |-> None, isp |-> None,
     organization |-> None, asn |-> None, timezone |-> None,
     latitude |-> None, longitude |-> None,
     fraud_score |-> <<None, None, None, None>>,
     is_proxy |-> None, is_vpn |-> None, is_tor |-> None, is_crawler |-> None,
     is_bot |-> None, recent_abuse |-> None, is_blacklisted |-> None,
     is_private |-> None, is_mobile |-> None, has_open_ports |-> None,
     is_hosting_provider |-> None, active_vpn |-> None, active_tor |-> None,
     public_access_point |-> None]

\* a seek that moves the stream by offset from where it stands
seek_from_current(cur, offset) == cur + offset

\* reader.seek(SeekFrom::Start(offset)): the stream position after it
seek(cur, offset) == offset

\* reader.read_exact(&mut buf) with buf.len() = n on a stream at cur: the
\* bytes and the position after them, or the error of a short read
read_exact(data, cur, n) ==
    IF cur + n > Len(data)
    THEN [tag |-> "err", err |-> "failed to fill whole buffer", val |-> <<>>,
          cursor |-> IF cur > Len(data) THEN cur ELSE Len(data)]
    ELSE [tag |-> "ok", err |-> "", val |-> Slice(data, cur, cur + n), cursor |-> cur + n]

\* FileReader::get_ranged_string_value: seek, read the size byte, read the bytes
FileReader_get_ranged_string_value(data, cur, offset) ==
    LET size_buf == read_exact(data, seek(cur, offset), 1)
    IN IF size_buf.tag # "ok" THEN size_buf
       ELSE LET raw == read_exact(data, size_buf.cursor, size_buf.val[1])
            IN IF raw.tag # "ok" THEN raw
               ELSE IF ~valid_utf8(raw.val, 1)
               THEN [raw EXCEPT !.tag = "err", !.err = "invalid utf-8", !.val = <<>>]
               ELSE raw

ParseOut(tag, err, record, cur) ==
    [tag |-> tag, err |-> err, record |-> record, cursor |-> cur]

\* the first part of the streaming Record::parse (lines 131-161): flag bytes and
\* common byte; yields the record so far and current_byte
FileRecord_head(raw, binary_data) ==
    LET current_byte == IF binary_data THEN 2 ELSE 0
    IN IF binary_data /\ Len(raw) < 2 THEN Panic("index out of bounds")
       ELSE IF Len(raw) < current_byte + 1 THEN Panic("index out of bounds")
       ELSE LET first == raw[1]
                second == raw[2]
                common_byte == raw[current_byte + 1]
                flagged ==
                    IF binary_data
                    THEN [DefaultRecord EXCEPT
                            !.is_proxy = Some(has(first, IS_PROXY)),
                            !.is_vpn = Some(has(first, IS_VPN)),
                            !.is_tor = Some(has(first, IS_TOR)),
                            !.is_crawler = Some(has(first, IS_CRAWLER)),
                            !.is_bot = Some(has(first, IS_BOT)),
                            !.recent_abuse = Some(has(first, RECENT_ABUSE)),
                            !.is_blacklisted = Some(has(first, IS_BLACKLISTED)),
                            !.is_private = Some(has(first, IS_PRIVATE)),
                            !.is_mobile = Some(has(second, IS_MOBILE)),
                            !.has_open_ports = Some(has(second, HAS_OPEN_PORTS)),
                            !.is_hosting_provider = Some(has(second, IS_HOSTING_PROVIDER)),
                            !.active_vpn = Some(has(second, ACTIVE_VPN)),
                            !.active_tor = Some(has(second, ACTIVE_TOR)),
                            !.public_access_point = Some(has(second, PUBLIC_ACCESS_POINT))]
                    ELSE DefaultRecord
            IN Ok([record |-> [flagged EXCEPT
                                 !.connection_type = connection_type(common_byte),
                                 !.abuse_velocity = abuse_velocity(common_byte)],
                   current_byte |-> current_byte + 1])

FraudIndex(name) ==
    IF name = NAME_ZeroFraudScore THEN 1
    ELSE IF name = NAME_OneFraudScore THEN 2
    ELSE IF name = NAME_TwoFraudScore THEN 3
    ELSE IF name = NAME_ThreeFraudScore THEN 4
    ELSE 0

\* the string arms of the inner match of the streaming Record::parse
\* (lines 273-295): [ok, record]
FileRecord_string_arm(record, name, value) ==
    IF name = NAME_Country THEN [ok |-> TRUE, record |-> [record EXCEPT !.country = Some(value)]]
    ELSE IF name = NAME_City THEN [ok |-> TRUE, record |-> [record EXCEPT !.city = Some(value)]]
    ELSE IF name = NAME_Region THEN [ok |-> TRUE, record |-> [record EXCEPT !.region = Some(value)]]
    ELSE IF name = NAME_ISP THEN [ok |-> TRUE, record |-> [record EXCEPT !.isp = Some(value)]]
    ELSE IF name = NAME_Organization
         THEN [ok |-> TRUE, record |-> [record EXCEPT !.organization = Some(value)]]
    ELSE IF name = NAME_Timezone
         THEN [ok |-> TRUE, record |-> [record EXCEPT !.timezone = Some(value)]]
    ELSE [ok |-> FALSE, record |-> record]

\* the column loop of the streaming Record::parse (lines 165-298) from column c on
RECURSIVE FileRecord_columns(_, _, _, _, _, _, _)
FileRecord_columns(data, raw, columns, c, record, current_byte, cur) ==
    IF c > Len(columns) THEN ParseOut("ok", "", record, cur)
    ELSE LET column == columns[c]
             name == column.name
             four == current_byte + 4 <= Len(raw)
             word == Slice(raw, current_byte, current_byte + 4)
         IN IF name = NAME_ASN
            THEN IF ~four THEN ParseOut("panic", "range end index out of range", record, cur)
                 ELSE FileRecord_columns(data, raw, columns, c + 1,
                          [record EXCEPT !.asn = Some(four_byte_int(word))],
                          current_byte + 4, cur)
            ELSE IF name = NAME_Latitude
            THEN IF ~four THEN ParseOut("panic", "range end index out of range", record, cur)
                 ELSE FileRecord_columns(data, raw, columns, c + 1,
                          [record EXCEPT !.latitude = Some(word)], current_byte + 4, cur)
            ELSE IF name = NAME_Longitude
            THEN IF ~four THEN ParseOut("panic", "range end index out of range", record, cur)
                 ELSE FileRecord_columns(data, raw, columns, c + 1,
                          [record EXCEPT !.longitude = Some(word)], current_byte + 4, cur)
            ELSE IF FraudIndex(name) # 0
            THEN IF current_byte + 1 > Len(raw)
                 THEN ParseOut("panic", "index out of bounds", record, cur)
                 ELSE FileRecord_columns(data, raw, columns, c + 1,
                          [record EXCEPT !.fraud_score[FraudIndex(name)] =
                                             Some(raw[current_byte + 1])],
                          current_byte + 1, cur)
            ELSE IF has(column.record_type, STRING_DATA)
            THEN IF ~four THEN ParseOut("panic", "range end index out of range", record, cur)
                 ELSE LET str == FileReader_get_ranged_string_value(data, cur, four_byte_int(word))
                          arm == FileRecord_string_arm(record, name, str.val)
                      IN IF str.tag # "ok" THEN ParseOut(str.tag, str.err, record, str.cursor)
                         ELSE IF ~arm.ok THEN ParseOut("err", "EID13", record, str.cursor)
                         ELSE FileRecord_columns(data, raw, columns, c + 1, arm.record,
                                                 current_byte + 4, str.cursor)
            ELSE LET arm == FileRecord_string_arm(record, name, <<>>)
                 IN IF ~arm.ok THEN ParseOut("err", "EID13", record, cur)
                    ELSE FileRecord_columns(data, raw, columns, c + 1, arm.record,
                                            current_byte, cur)

\* file_reader::record::Record::parse(raw, file)
FileRecord_parse(data, raw, reader, cur) ==
    LET head == FileRecord_head(raw, reader.binary_data)
    IN IF head.tag # "ok" THEN ParseOut(head.tag, head.err, DefaultRecord, cur)
       ELSE FileRecord_columns(data, raw, reader.columns, 1, head.val.record,
                               head.val.current_byte, cur)

----------------------------------------------------------------------------
(* The resident reader's record handle (memory_reader/record.rs): accessors *)
(* over (data, reader, offset).  An accessor yields Ok(value) or panics on  *)
(* an index outside the buffer.                                             *)

\* data[i] of a slice
Index(data, i) == IF i < Len(data) THEN Ok(data[i + 1]) ELSE Panic("index out of bounds")

\* Record::common_byte
MemRecord_common_byte(data, reader, offset) ==
    Index(data, offset + (IF reader.binary_data THEN 2 ELSE 0))

\* a flag byte accessor that reads the first byte whichever byte is asked for
MemRecord_first_byte(data, reader, offset, which) ==
    LET byte == Index(data, offset)
    IN IF byte.tag # "ok" THEN byte
       ELSE Ok(IF reader.binary_data THEN Some(byte.val) ELSE None)

\* Record::first_byte / second_byte: then_some evaluates its argument first
MemRecord_flag_byte(data, reader, offset, which) ==
    LET byte == Index(data, offset + which)
    IN IF byte.tag # "ok" THEN byte
       ELSE Ok(IF reader.binary_data THEN Some(byte.val) ELSE None)

\* Record::first_byte_flag / second_byte_flag
MemRecord_byte_flag(data, reader, offset, which, flag) ==
    LET byte == MemRecord_flag_byte(data, reader, offset, which)
    IN IF byte.tag # "ok" THEN byte
       ELSE Ok(IF byte.val = None THEN None ELSE Some(has(byte.val[1], flag)))

\* utility::parse_string on data[offset..]
parse_string(data, offset) ==
    IF offset > Len(data) THEN Panic("range start index out of range")
    ELSE IF offset = Len(data) THEN Panic("index out of bounds")
    ELSE LET size == data[offset + 1]
         IN IF offset + 1 + size > Len(data) THEN Panic("range end index out of range")
            ELSE LET raw == Slice(data, offset + 1, offset + 1 + size)
                 IN IF valid_utf8(raw, 1) THEN Ok(raw) ELSE Err("invalid utf-8")

\* MemoryReader::get_ranged_string_value
MemoryReader_get_ranged_string_value(data, offset) ==
    IF offset + 4 > Len(data) THEN Panic("range end index out of range")
    ELSE parse_string(data, four_byte_int(Slice(data, offset, offset + 4)))

\* Record::string_column: an Err becomes None (`.ok()`)
MemRecord_string_column(data, offset, column) ==
    IF column = None THEN Ok(None)
    ELSE LET str == MemoryReader_get_ranged_string_value(data, offset + column[1])
         IN IF str.tag = "panic" THEN str
            ELSE IF str.tag = "err" THEN Ok(None)
            ELSE Ok(Some(str.val))

\* Record::int_column over MemoryReader::get_int_value
MemRecord_int_column(data, offset, column) ==
    IF column = None THEN Ok(None)
    ELSE IF offset + column[1] + 4 > Len(data) THEN Panic("range end index out of range")
    ELSE Ok(Some(four_byte_int(Slice(data, offset + column[1], offset + column[1] + 4))))

\* Record::float_column over MemoryReader::get_float_value (the f32 is its bytes)
MemRecord_float_column(data, offset, column) ==
    IF column = None THEN Ok(None)
    ELSE IF offset + column[1] + 4 > Len(data) THEN Panic("range end index out of range")
    ELSE Ok(Some(Slice(data, offset + column[1], offset + column[1] + 4)))

\* Record::fraud_score over MemoryReader::get_small_int_value
MemRecord_fraud_score(data, reader, offset, strictness) ==
    LET column == reader.layout.fraud_score[strictness + 1]
    IN IF column = None THEN Ok(None)
       ELSE LET byte == Index(data, offset + column[1])
            IN IF byte.tag # "ok" THEN byte ELSE Ok(Some(byte.val))

\* Record::connection_type / abuse_velocity
MemRecord_connection_type(data, reader, offset) ==
    LET byte == MemRecord_common_byte(data, reader, offset)
    IN IF byte.tag # "ok" THEN byte ELSE Ok(connection_type(byte.val))

MemRecord_abuse_velocity(data, reader, offset) ==
    LET byte == MemRecord_common_byte(data, reader, offset)
    IN IF byte.tag # "ok" THEN byte ELSE Ok(abuse_velocity(byte.val))

\* every accessor of a resident record, under the field names of the streaming Record
MemRecord_accessors(data, reader, offset) ==
    [connection_type |-> MemRecord_connection_type(data, reader, offset),
     abuse_velocity |-> MemRecord_abuse_velocity(data, reader, offset),
     country |-> MemRecord_string_column(data, offset, reader.layout.country),
     city |-> MemRecord_string_column(data, offset, reader.layout.city),
     region |-> MemRecord_string_column(data, offset, reader.layout.region),
     isp |-> MemRecord_string_column(data, offset, reader.layout.isp),
     organization |-> MemRecord_string_column(data, offset, reader.layout.organization),
     asn |-> MemRecord_int_column(data, offset, reader.layout.asn),
     timezone |-> MemRecord_string_column(data, offset, reader.layout.timezone),
     latitude |-> MemRecord_float_column(data, offset, reader.layout.latitude),
     longitude |-> MemRecord_float_column(data, offset, reader.layout.longitude),
     fraud_score |-> [s \in 1..4 |-> MemRecord_fraud_score(data, reader, offset, s - 1)],
     is_proxy |-> MemRecord_byte_flag(data, reader, offset, 0, IS_PROXY),
     is_vpn |-> MemRecord_byte_flag(data, reader, offset, 0, IS_VPN),
     is_tor |-> MemRecord_byte_flag(data, reader, offset, 0, IS_TOR),
     is_crawler |-> MemRecord_byte_flag(data, reader, offset, 0, IS_CRAWLER),
     is_bot |-> MemRecord_byte_flag(data, reader, offset, 0, IS_BOT),
     recent_abuse |-> MemRecord_byte_flag(data, reader, offset, 0, RECENT_ABUSE),
     is_blacklisted |-> MemRecord_byte_flag(data, reader, offset, 0, IS_BLACKLISTED),
     is_private |-> MemRecord_byte_flag(data, reader, offset, 0, IS_PRIVATE),
     is_mobile |-> MemRecord_byte_flag(data, reader, offset, 1, IS_MOBILE),
     has_open_ports |-> MemRecord_byte_flag(data, reader, offset, 1, HAS_OPEN_PORTS),
     is_hosting_provider |-> MemRecord_byte_flag(data, reader, offset, 1, IS_HOSTING_PROVIDER),
     active_vpn |-> MemRecord_byte_flag(data, reader, offset, 1, ACTIVE_VPN),
     active_tor |-> MemRecord_byte_flag(data, reader, offset, 1, ACTIVE_TOR),
     public_access_point |-> MemRecord_byte_flag(data, reader, offset, 1, PUBLIC_ACCESS_POINT)]

----------------------------------------------------------------------------
(* The walkers.  A walker's locals are a record; the fields reads, holes,   *)
(* stuck, after_stuck and leaf are history fields kept for the properties:  *)
(*   reads        number of 8-byte node reads so far                        *)
(*   holes        number of selected child values below tree_start so far   *)
(*   first_hole   Some(reads) at the first such child value                 *)
(*   stuck        Some(node offset) once a selected child below tree_start  *)
(*                was met with no set address bit at or before the position *)
(*   after_stuck  offsets of the node reads made after that                 *)
(*   leaf         Some(offset) once a leaf pointer was followed             *)
(*   read_at      offsets at which an 8-byte node read was made or tried    *)
(*   broke        the streaming walker left its loop by `break`             *)

Outcome(tag, err, leaf, record) ==
    [tag |-> tag, err |-> err, leaf |-> leaf, record |-> record]

NoOutcome == Outcome("none", "", None, DefaultRecord)
Running == Outcome("running", "", None, DefaultRecord)

IdleWalk ==
    [position |-> 0, node |-> 0, bits |-> <<>>, previous |-> <<>>, iter |-> 0,
     reads |-> 0, holes |-> 0, first_hole |-> None, stuck |-> None,
     after_stuck |-> {}, leaf |-> None, read_at |-> {}, broke |-> FALSE]

\* a gate that only knows the first of the two mismatches
FileReader_gate_one_way(reader, addr) ==
    IF reader.is_v6 /\ ~addr.v6
    THEN Err("attempted to fetch IPv4 record using IPv6 data file")
    ELSE Ok(TRUE)

\* the family gate at the top of FileReader::fetch (lines 194-199)
FileReader_gate(reader, addr) ==
    IF reader.is_v6 /\ ~addr.v6
    THEN Err("attempted to fetch IPv4 record using IPv6 data file")
    ELSE IF ~reader.is_v6 /\ addr.v6
    THEN Err("attempted to fetch IPv6 record using IPv4 data file")
    ELSE Ok(TRUE)

\* the family gate at the top of MemoryReader::fetch (lines 239-244)
MemoryReader_gate(reader, addr) ==
    IF reader.is_v6 /\ ~addr.v6
    THEN Err("attempted to fetch IPv4 record using IPv6 data file")
    ELSE IF ~reader.is_v6 /\ addr.v6
    THEN Err("attempted to fetch IPv6 record using IPv4 data file")
    ELSE Ok(TRUE)

\* the locals of FileReader::fetch before its loop (lines 201-224)
FileReader_locals(reader, addr) ==
    [IdleWalk EXCEPT !.node = reader.tree_start + TREE_HEADER_LEN,
                     !.bits = binary_representation(addr)]

\* the locals of MemoryReader::fetch before its loop (lines 246-249)
MemoryReader_locals(reader, addr) ==
    [IdleWalk EXCEPT !.node = reader.tree_start + TREE_HEADER_LEN,
                     !.bits = AddressBits_from(addr)]

\* the scan `for i in 0..position + 1` of FileReader::fetch (lines 248-259):
\* the nearest set bit at or before position, if any
\* (the first i of the range i..position whose bit is set ends the loop)
FileReader_scan(bits, position, i) ==
    LET set == {j \in i..position : bits[position - j + 1]}
    IN IF set = {} THEN None ELSE Some(position - SetMin(set))

\* the rewrite of binary_representation at the found bit k (lines 250-254)
FileReader_rewrite(bits, k) ==
    [p \in 1..Len(bits) |-> IF p - 1 = k THEN FALSE
                            ELSE IF p - 1 > k THEN TRUE
                            ELSE bits[p]]

\* does the address have a set bit at a position <= p?  (history only)
HasOneUpTo(present, p) == \E q \in 0..p : present[q]

\* the end of one loop iteration that reached `continue` or the end of the body
LoopNext(w) ==
    IF w.iter = MAX_ITERATIONS
    THEN [w |-> w, out |-> Outcome("err", "EID10", None, DefaultRecord)]
    ELSE [w |-> w, out |-> Running]

\* a test that takes no child value for a hole
FileReader_never_hole(reader, file_position) == FALSE

\* the test of the hole branch of FileReader::fetch (line 243)
FileReader_is_hole(reader, file_position) == ~reader.is_blacklist /\ file_position = 0

\* one iteration of the loop of FileReader::fetch (lines 227-278):
\* [w |-> locals, out |-> outcome or Running, cursor |-> stream position]
FileReader_iteration(reader, data, w0, cur) ==
    LET w == [w0 EXCEPT !.iter = @ + 1,
                        !.previous = (w0.position :> w0.node) @@ @]
        node_read == read_exact(data, seek(cur, w.node), NODE_LEN)
        at == [w EXCEPT !.read_at = @ \cup {w.node}]
    IN IF Len(w.bits) <= w.position
       THEN [w |-> w, out |-> Outcome("err", "EID9", None, DefaultRecord), cursor |-> cur]
       ELSE IF node_read.tag # "ok"
       THEN [w |-> at, out |-> Outcome("err", node_read.err, None, DefaultRecord),
             cursor |-> node_read.cursor]
       ELSE
         LET node == node_read.val
             bit == w.bits[w.position + 1]
             file_position == IF bit THEN four_byte_int(Slice(node, 4, 8))
                              ELSE four_byte_int(Slice(node, 0, 4))
             hole == file_position < reader.tree_start
             nowStuck == hole /\ ~HasOneUpTo([q \in 0..w.position |-> w.bits[q + 1]], w.position)
             r == [at EXCEPT !.reads = @ + 1,
                             !.holes = IF hole THEN @ + 1 ELSE @,
                             !.first_hole = IF @ = None /\ hole THEN Some(w.reads + 1) ELSE @,
                             !.after_stuck = IF w.stuck # None THEN @ \cup {w.node} ELSE @,
                             !.stuck = IF @ = None /\ nowStuck THEN Some(w.node) ELSE @]
             after == node_read.cursor
         IN IF FileReader_is_hole(reader, file_position)
            THEN LET found == FileReader_scan(r.bits, r.position, 0)
                     next == IF found = None
                             THEN [r EXCEPT !.node = file_position]
                             ELSE [r EXCEPT !.bits = FileReader_rewrite(r.bits, found[1]),
                                            !.position = found[1],
                                            !.node = r.previous[found[1]]]
                 IN LoopNext(next) @@ [cursor |-> after]
            ELSE IF file_position < reader.tree_end
            THEN IF file_position = 0
                 THEN [w |-> [r EXCEPT !.node = file_position, !.broke = TRUE],
                       out |-> Outcome("err", "EID10", None, DefaultRecord),
                       cursor |-> after]
                 ELSE LoopNext([r EXCEPT !.node = file_position, !.position = @ + 1])
                      @@ [cursor |-> after]
            ELSE LET found == [r EXCEPT !.node = file_position, !.leaf = Some(file_position)]
                     leaf == read_exact(data, seek(after, file_position), reader.record_bytes)
                 IN IF leaf.tag # "ok"
                    THEN [w |-> found,
                          out |-> Outcome("err", leaf.err, Some(file_position), DefaultRecord),
                          cursor |-> leaf.cursor]
                    ELSE LET parsed == FileRecord_parse(data, leaf.val, reader, leaf.cursor)
                         IN [w |-> found,
                             out |-> Outcome(parsed.tag, parsed.err, Some(file_position),
                                             parsed.record),
                             cursor |-> parsed.cursor]

\* a Missing arm without its guard: every hole ends the walk
Missing_always_breaks(reader) == TRUE

\* the guard of the arm `NodeResult::Missing if self.is_blacklist` (line 267)
Missing_breaks(reader) == reader.is_blacklist

\* one iteration of the loop of MemoryReader::fetch (lines 253-289):
\* [w |-> locals, out |-> outcome or Running]
MemoryReader_iteration(reader, data, w0, overflow_checks) ==
    LET w == [w0 EXCEPT !.iter = @ + 1,
                        !.previous = (w0.position :> w0.node) @@ @]
        crash(at, e) == [w |-> at, out |-> Outcome("panic", e, None, DefaultRecord)]
        entered == [w0 EXCEPT !.iter = @ + 1]
    IN IF w0.position >= PREVIOUS_LEN THEN crash(entered, "index out of bounds")
       ELSE IF w.bits.len <= w.position
       THEN [w |-> w, out |-> Outcome("err", "EID9", None, DefaultRecord)]
       ELSE IF w.node + NODE_LEN > Len(data)
       THEN crash([entered EXCEPT !.read_at = @ \cup {w.node}], "range end index out of range")
       ELSE
         LET node_result == next_node(AddressBits_position(w.bits, w.position),
                                      Slice(data, w.node, w.node + NODE_LEN),
                                      reader.tree_start, reader.tree_end)
             hole == node_result.kind = "Missing"
             nowStuck == hole /\ ~HasOneUpTo([q \in 0..w.position |-> AddressBits_position(w.bits, q)],
                                             w.position)
             r == [w EXCEPT !.reads = @ + 1,
                            !.read_at = @ \cup {w.node},
                            !.holes = IF hole THEN @ + 1 ELSE @,
                            !.first_hole = IF @ = None /\ hole THEN Some(w.reads + 1) ELSE @,
                            !.after_stuck = IF w.stuck # None THEN @ \cup {w.node} ELSE @,
                            !.stuck = IF @ = None /\ nowStuck THEN Some(w.node) ELSE @]
         IN IF node_result.kind = "Missing" /\ Missing_breaks(reader)
            THEN [w |-> r, out |-> Outcome("err", "EID10", None, DefaultRecord)]
            ELSE IF node_result.kind = "Missing"
            THEN LET back == AddressBits_try_backtrack(r.bits, r.position, overflow_checks)
                 IN IF back.tag # "ok" THEN crash(r, back.err)
                    ELSE IF back.val.index = None THEN LoopNext(r)
                    ELSE LoopNext([r EXCEPT !.bits = back.val.bits,
                                            !.position = back.val.index[1],
                                            !.node = r.previous[back.val.index[1]]])
            ELSE IF node_result.kind = "NextNode"
            THEN LoopNext([r EXCEPT !.node = node_result.at, !.position = @ + 1])
            ELSE [w |-> [r EXCEPT !.leaf = Some(node_result.at)],
                  out |-> Outcome("ok", "", Some(node_result.at), DefaultRecord)]

\* `for _ in 0..257` of FileReader::fetch: the body applied to the locals
\* up to n times, stopping at the first return.  The n passes are split in
\* halves so that the evaluation nests to a depth logarithmic in n.
RECURSIVE FileReader_loop(_, _, _, _)
FileReader_loop(reader, data, s, n) ==
    IF s.out.tag # "running" THEN s
    ELSE IF n = 1 THEN FileReader_iteration(reader, data, s.w, s.cursor)
    ELSE FileReader_loop(reader, data,
                         FileReader_loop(reader, data, s, n \div 2), n - (n \div 2))

\* FileReader::fetch: [w |-> final locals, out |-> outcome, cursor |-> stream position]
FileReader_fetch(reader, data, addr, cur) ==
    LET gate == FileReader_gate(reader, addr)
    IN IF gate.tag # "ok"
       THEN [w |-> IdleWalk, out |-> Outcome("err", gate.err, None, DefaultRecord),
             cursor |-> cur]
       ELSE FileReader_loop(reader, data,
                            [w |-> FileReader_locals(reader, addr), out |-> Running,
                             cursor |-> cur],
                            MAX_ITERATIONS)

\* `for _ in 0..257` of MemoryReader::fetch, as FileReader_loop
RECURSIVE MemoryReader_loop(_, _, _, _, _)
MemoryReader_loop(reader, data, s, n, overflow_checks) ==
    IF s.out.tag # "running" THEN s
    ELSE IF n = 1 THEN MemoryReader_iteration(reader, data, s.w, overflow_checks)
    ELSE MemoryReader_loop(reader, data,
                           MemoryReader_loop(reader, data, s, n \div 2, overflow_checks),
                           n - (n \div 2), overflow_checks)

\* MemoryReader::fetch: [w |-> final locals, out |-> outcome]
MemoryReader_fetch(reader, data, addr, overflow_checks) ==
    LET gate == MemoryReader_gate(reader, addr)
    IN IF gate.tag # "ok"
       THEN [w |-> IdleWalk, out |-> Outcome("err", gate.err, None, DefaultRecord)]
       ELSE MemoryReader_loop(reader, data,
                              [w |-> MemoryReader_locals(reader, addr), out |-> Running],
                              MAX_ITERATIONS, overflow_checks)

----------------------------------------------------------------------------
(* The files and addresses the model is run on.  A file is laid out as the  *)
(* format prescribes: header, column descriptors, tree header, tree nodes,  *)
(* leaf records, string pool.                                               *)

LE32(v) == <<v % 256, (v \div 256) % 256, (v \div 65536) % 256, v \div 16777216>>

RECURSIVE Zeros(_)
Zeros(n) == IF n <= 0 THEN <<>> ELSE <<0>> \o Zeros(n - 1)

RECURSIVE Flatten(_)
Flatten(seqs) == IF seqs = <<>> THEN <<>> ELSE Head(seqs) \o Flatten(Tail(seqs))

Descriptor(name, record_type) ==
    name \o Zeros(COLUMN_DESCRIPTOR_LENGTH - 1 - Len(name)) \o <<record_type>>

\* header bytes 2-4 and 5-6 are given as they stand in the file
FileBytes(flag, version, tree_start_bytes, record_bytes_bytes, descriptors, tree_flag, tree_size, nodes, tail) ==
    LET body == Flatten(descriptors) \o <<tree_flag>> \o LE32(tree_size)
                \o Flatten([i \in 1..Len(nodes) |-> LE32(nodes[i][1]) \o LE32(nodes[i][2])])
                \o tail
    IN <<flag, version>> \o tree_start_bytes \o record_bytes_bytes
       \o LE32(HEADER_LEN + Len(body)) \o body

FlagByte(v6, blacklist, binary_data) ==
    (IF v6 THEN IPV6_MAP ELSE IPV4_MAP)
    + (IF blacklist THEN BLACKLIST_FILE ELSE 0)
    + (IF binary_data THEN BINARY_DATA ELSE 0)

\* Trees for the walkers.  Each child slot of node i (1..NumNodes) is one of
\*   "hole"  the value 0
\*   "low"   a non-zero value below tree_start (in the root only)
\*   "leaf"  the offset of the slot's own leaf record
\*   "next"  the offset of node i + 1; for the last node, of the root (a cycle)
\* A node that no "next" leads to holds two holes.
ChildKinds == {"hole", "low", "leaf", "next"}

Shapes ==
    {t \in [1..NumNodes -> ChildKinds \X ChildKinds] :
        \A i \in 2..NumNodes :
            /\ "low" \notin {t[i][1], t[i][2]}
            /\ ("next" \notin {t[i - 1][1], t[i - 1][2]}) => t[i] = <<"hole", "hole">>}

WalkColumns == <<Descriptor(NAME_ZeroFraudScore, SMALL_INT_DATA)>>
WalkTreeStart == HEADER_LEN + COLUMN_DESCRIPTOR_LENGTH * Len(WalkColumns)
WalkTreeSize == TREE_HEADER_LEN + NODE_LEN * NumNodes
WalkTreeEnd == WalkTreeStart + WalkTreeSize

\* the leaf of slot (i, side): common byte, then its ZeroFraudScore
WalkLeaf(i, side) == <<8 * (2 * (i - 1) + side), 10 + 2 * (i - 1) + side>>
WalkRecordBytes == Len(WalkLeaf(1, 0))

NodeOffset(i) == WalkTreeStart + TREE_HEADER_LEN + NODE_LEN * (i - 1)
LeafOffset(i, side) == WalkTreeEnd + WalkRecordBytes * (2 * (i - 1) + side)

ChildValue(kind, i, side) ==
    IF kind = "hole" THEN 0
    ELSE IF kind = "low" THEN 1
    ELSE IF kind = "leaf" THEN LeafOffset(i, side)
    ELSE NodeOffset(IF i = NumNodes THEN 1 ELSE i + 1)


WalkFile(v6, blacklist, shape) ==
    FileBytes(FlagByte(v6, blacklist, FALSE), RUST_IPQS_READER_VERSION,
              <<WalkTreeStart, 0, 0>>, <<WalkRecordBytes, 0>>, WalkColumns,
              TREE_DATA, WalkTreeSize,
              [i \in 1..NumNodes |-> <<ChildValue(shape[i][1], i, 0),
                                       ChildValue(shape[i][2], i, 1)>>],
              Flatten([j \in 1..(2 * NumNodes) |->
                          WalkLeaf((j + 1) \div 2, (j + 1) % 2)]))

\* the blacklist bit is consulted in the hole branch alone, which does not
\* look at the family: blacklist files are built for the IPv4 family
WalkKinds == {k \in BOOLEAN \X BOOLEAN : ~(k[1] /\ k[2])}

WalkFiles == {WalkFile(k[1], k[2], shape) : k \in WalkKinds, shape \in Shapes}

\* Files with a one-node tree whose two children are the leaves leaf0 and
\* leaf1, followed by a string pool
OneNodeTreeSize == TREE_HEADER_LEN + NODE_LEN

OneNodeFile(flag, version, record_bytes_bytes, descriptors, leaf0, leaf1, pool) ==
    LET tree_start == HEADER_LEN + COLUMN_DESCRIPTOR_LENGTH * Len(descriptors)
        tree_end == tree_start + OneNodeTreeSize
    IN FileBytes(flag, version, <<tree_start, 0, 0>>, record_bytes_bytes, descriptors,
                 TREE_DATA, OneNodeTreeSize, <<<<tree_end, tree_end + Len(leaf0)>>>>,
                 leaf0 \o leaf1 \o pool)

\* Headers: flag bytes with none, one and both of the family bits, version
\* bytes around 1, and record_bytes varints of one and of two bytes that
\* decode to 0 and to the length of the leaves
HeaderFlags ==
    {0, IPV4_MAP, IPV6_MAP, IPV4_MAP + IPV6_MAP, IPV4_MAP + BLACKLIST_FILE,
     IPV6_MAP + BLACKLIST_FILE, IPV4_MAP + IPV6_MAP + BLACKLIST_FILE,
     IPV4_MAP + BINARY_DATA}
HeaderVersions == {0, RUST_IPQS_READER_VERSION, 2}
HeaderRecordBytes(n) == {<<0, 0>>, <<n, 0>>, <<128, 0>>, <<128 + n, 0>>}

\* the leaf of side `side` under the flag byte: two flag bytes first when the
\* binary-data bit is set
HeaderLeaf(flag, side) ==
    (IF flag >= BINARY_DATA THEN <<1 + side, 2 + side>> ELSE <<>>) \o WalkLeaf(1, side)

HeaderFilesOf(flag) ==
    {OneNodeFile(flag, version, record_bytes_bytes, WalkColumns,
                 HeaderLeaf(flag, 0), HeaderLeaf(flag, 1), <<>>) :
        version \in HeaderVersions,
        record_bytes_bytes \in HeaderRecordBytes(Len(HeaderLeaf(flag, 0)))}

HeaderFiles == UNION {HeaderFilesOf(flag) : flag \in HeaderFlags}

\* Column lists: a fraud score next to a column of an unknown name ("Foo") of
\* each stored type, before or after it, and next to a known string column
NAME_Foo == <<70, 111, 111>>
ZeroFraudScoreColumn == [name |-> NAME_ZeroFraudScore, record_type |-> SMALL_INT_DATA]

ColumnLists ==
    {<<[name |-> NAME_Foo, record_type |-> t], ZeroFraudScoreColumn>> :
        t \in {SMALL_INT_DATA, INT_DATA, STRING_DATA}}
    \cup {<<ZeroFraudScoreColumn, [name |-> NAME_Foo, record_type |-> t]>> :
             t \in {SMALL_INT_DATA, INT_DATA, STRING_DATA}}
    \cup {<<[name |-> NAME_Country, record_type |-> STRING_DATA], ZeroFraudScoreColumn>>}

\* the stored width of a field of the given type (spec.md, record layout)
FieldWidth(record_type) == IF record_type = SMALL_INT_DATA THEN 1 ELSE 4

RECURSIVE FieldsWidth(_)
FieldsWidth(columns) ==
    IF columns = <<>> THEN 0
    ELSE FieldWidth(Head(columns).record_type) + FieldsWidth(Tail(columns))

ColumnRecordBytes(columns, binary_data) ==
    (IF binary_data THEN 3 ELSE 1) + FieldsWidth(columns)

\* the string pool: "US", length-prefixed
ColumnPool == <<2, 85, 83>>

\* the field stored for a column in leaf k: a fraud score 20 + k, the pool
\* offset for a string, 7 + k for another integer
ColumnField(column, k, pool_offset) ==
    IF column.name = NAME_ZeroFraudScore THEN <<20 + k>>
    ELSE IF column.record_type = STRING_DATA THEN LE32(pool_offset)
    ELSE IF column.record_type = INT_DATA THEN LE32(7 + k)
    ELSE <<7 + k>>

ColumnLeaf(columns, binary_data, k, pool_offset) ==
    (IF binary_data THEN <<1 + k, 2 + k>> ELSE <<>>) \o <<8 * (1 + k)>>
    \o Flatten([c \in 1..Len(columns) |-> ColumnField(columns[c], k, pool_offset)])

ColumnFile(columns, binary_data) ==
    LET record_bytes == ColumnRecordBytes(columns, binary_data)
        pool_offset == HEADER_LEN + COLUMN_DESCRIPTOR_LENGTH * Len(columns)
                       + OneNodeTreeSize + 2 * record_bytes
    IN OneNodeFile(FlagByte(FALSE, FALSE, binary_data), RUST_IPQS_READER_VERSION,
                   <<record_bytes, 0>>,
                   [c \in 1..Len(columns) |->
                       Descriptor(columns[c].name, columns[c].record_type)],
                   ColumnLeaf(columns, binary_data, 0, pool_offset),
                   ColumnLeaf(columns, binary_data, 1, pool_offset),
                   ColumnPool)

ColumnFiles == {ColumnFile(columns, binary_data) :
                   columns \in ColumnLists, binary_data \in BOOLEAN}

Files == WalkFiles \cup HeaderFiles \cup ColumnFiles

\* Addresses: PrefixLen leading bits, every later bit equal to a fill bit
RECURSIVE PrefixValue(_, _)
PrefixValue(prefix, i) ==
    IF i > Len(prefix) THEN 0
    ELSE (IF prefix[i] THEN Pow2(8 - i) ELSE 0) + PrefixValue(prefix, i + 1)

Address(v6, prefix, fill) ==
    [v6 |-> v6,
     octets |-> [k \in 1..(IF v6 THEN 16 ELSE 4) |->
                   IF k = 1
                   THEN PrefixValue(prefix, 1)
                        + (IF fill THEN Pow2(8 - Len(prefix)) - 1 ELSE 0)
                   ELSE IF fill THEN 255 ELSE 0]]

Addresses(v6) ==
    {Address(v6, prefix, fill) : prefix \in [1..PrefixLen -> BOOLEAN], fill \in BOOLEAN}

\* the addresses tried on a reader of family v6: all of its own family and one
\* of the other family
Inputs(v6) == Addresses(v6) \cup {Address(~v6, [i \in 1..PrefixLen |-> TRUE], FALSE)}

----------------------------------------------------------------------------
(* The state machine.  A run opens both readers over one file, picks an    *)
(* address and calls FileReader::fetch and then MemoryReader::fetch on it,  *)
(* as the parity tests do.                                                  *)

InitOn(files) ==
    /\ file \in files
    /\ fr = ClosedReader
    /\ mr = ClosedReader
    /\ cursor = 0
    /\ ip = NoIp
    /\ turn = "none"
    /\ fw = IdleWalk
    /\ mw = IdleWalk
    /\ fres = NoOutcome
    /\ mres = NoOutcome
    /\ calls = 0
    /\ threads = <<>>
    /\ arg = <<>>
    /\ ret = <<>>

\* FileReader::from_bytes
FileReader_open ==
    /\ fr.state = "closed"
    /\ \E overflow_checks \in BOOLEAN :
          /\ fr' = FileReader_from_reader(file, overflow_checks)
          /\ cursor' = IF fr'.state = "ok" THEN fr'.tree_start + TREE_HEADER_LEN ELSE 0
    /\ UNCHANGED <<file, mr, ip, turn, fw, mw, fres, mres, calls, aside>>

\* MemoryReader::from_bytes
MemoryReader_open ==
    /\ fr.state # "closed"
    /\ mr.state = "closed"
    /\ \E overflow_checks \in BOOLEAN :
          mr' = MemoryReader_from_bytes(file, overflow_checks)
    /\ UNCHANGED <<file, fr, cursor, ip, turn, fw, mw, fres, mres, calls, aside>>

\* the builds that can tell a fetch of addr apart: overflow checks decide a
\* shift by U128_BITS alone, which AddressBits::set_branch does on a 128-bit
\* address only
Builds(addr) == IF addr.v6 THEN BOOLEAN ELSE {TRUE}

\* a caller picks the address that both readers are asked for
Call ==
    /\ turn = "none"
    /\ ip = NoIp
    /\ fr.state # "closed"
    /\ mr.state # "closed"
    /\ "ok" \in {fr.state, mr.state}
    /\ \E addr \in Inputs(IF fr.state = "ok" THEN fr.is_v6 ELSE mr.is_v6) : ip' = addr
    /\ turn' = IF fr.state = "ok" THEN "file" ELSE "memory"
    /\ UNCHANGED <<file, fr, mr, cursor, fw, mw, fres, mres, calls, aside>>

\* FileReader::fetch(&ip)
FileFetch ==
    /\ turn = "file"
    /\ \E call \in {FileReader_fetch(fr, file, ip, cursor)} :
          /\ fw' = call.w
          /\ fres' = call.out
          /\ cursor' = call.cursor
    /\ turn' = IF mr.state = "ok" THEN "memory" ELSE "done"
    /\ calls' = calls + 1
    /\ UNCHANGED <<file, fr, mr, ip, mw, mres, aside>>

\* MemoryReader::fetch(&ip)
MemFetch ==
    /\ turn = "memory"
    /\ \E overflow_checks \in Builds(ip) :
          \E call \in {MemoryReader_fetch(mr, file, ip, overflow_checks)} :
             /\ mw' = call.w
             /\ mres' = call.out
    /\ turn' = "done"
    /\ UNCHANGED <<file, fr, mr, cursor, ip, fw, fres, calls, aside>>

Init == InitOn(Files)

Next ==
    \/ FileReader_open
    \/ MemoryReader_open
    \/ Call
    \/ FileFetch
    \/ MemFetch

Spec == Init /\ [][Next]_vars

----------------------------------------------------------------------------
(* Construction alone, over files whose header, tree header or length is   *)
(* out of order.                                                            *)

\* a complete file: IPv4, one column, one node, two leaves
WholeFile ==
    OneNodeFile(IPV4_MAP, RUST_IPQS_READER_VERSION, <<WalkRecordBytes, 0>>, WalkColumns,
                WalkLeaf(1, 0), WalkLeaf(1, 1), <<>>)

\* data with the bytes from offset `at` on replaced by `bytes`
Patch(data, at, bytes) ==
    [i \in 1..Len(data) |->
        IF at < i /\ i <= at + Len(bytes) THEN bytes[i - at] ELSE data[i]]

\* header bytes 2-4: every tree_start up to 12, the values around the true
\* one, two-byte forms of 0 and of the true one, and a window that does not
\* terminate
HeaderSizeFiles ==
    {Patch(WholeFile, 2, <<t, 0, 0>>) :
        t \in (0..(HEADER_LEN + 1)) \cup {WalkTreeStart - 1, WalkTreeStart, WalkTreeStart + 1}}
    \cup {Patch(WholeFile, 2, window) :
             window \in {<<128, 0, 0>>, <<128 + WalkTreeStart, 0, 0>>,
                         <<128 + WalkTreeStart, 128, 128>>}}

\* tree headers: the tree-data bit clear or set among other bits, the size 0,
\* smaller than, equal to and greater than what the file holds
TreeHeaderFiles ==
    {Patch(WholeFile, WalkTreeStart, <<tree_flag>> \o LE32(tree_size)) :
        tree_flag \in {0, TREE_DATA, 255 - TREE_DATA, 255},
        tree_size \in {0, 1, OneNodeTreeSize, OneNodeTreeSize + 2 * WalkRecordBytes,
                       OneNodeTreeSize + 2 * WalkRecordBytes + 1, 2 * Len(WholeFile)}}

\* every proper prefix of the complete file, and of it with the tree-data bit clear
TruncatedFiles ==
    {SubSeq(data, 1, n) :
        data \in {WholeFile, Patch(WholeFile, WalkTreeStart, <<0>>)},
        n \in 0..(Len(WholeFile) - 1)}

OpenFiles == HeaderSizeFiles \cup TreeHeaderFiles \cup TruncatedFiles

InitOpen == InitOn(OpenFiles)

NextOpen ==
    \/ FileReader_open
    \/ MemoryReader_open

SpecOpen == InitOpen /\ [][NextOpen]_vars

----------------------------------------------------------------------------
(* Fetches on files whose leaves or strings are out of order.               *)

CountryColumns == <<[name |-> NAME_Country, record_type |-> STRING_DATA], ZeroFraudScoreColumn>>

\* where the string pool of a CountryColumns file starts, i.e. its length
\* without the pool
CountryPoolOffset ==
    HEADER_LEN + COLUMN_DESCRIPTOR_LENGTH * Len(CountryColumns) + OneNodeTreeSize
    + 2 * ColumnRecordBytes(CountryColumns, FALSE)

\* a file of two leaves whose Country fields hold pool_offset + shift
CountryFile(pool, shift) ==
    OneNodeFile(FlagByte(FALSE, FALSE, FALSE), RUST_IPQS_READER_VERSION,
                <<ColumnRecordBytes(CountryColumns, FALSE), 0>>,
                [c \in 1..Len(CountryColumns) |->
                    Descriptor(CountryColumns[c].name, CountryColumns[c].record_type)],
                ColumnLeaf(CountryColumns, FALSE, 0, CountryPoolOffset + shift),
                ColumnLeaf(CountryColumns, FALSE, 1, CountryPoolOffset + shift),
                pool)

\* pools: "US"; the empty string; two bytes that are no UTF-8; a length
\* prefix that reaches past the end of the file; no pool at all.
\* shifts of the stored offset: onto the pool, onto its last byte, onto the
\* end of the file and beyond it
CountryFiles ==
    {CountryFile(pool, shift) :
        pool \in {ColumnPool, <<0>>, <<2, 255, 254>>, <<2, 85, 195>>, <<5, 85, 83>>, <<>>},
        shift \in {0, 2, 3, 10}}

\* the complete file with its last leaf cut short by 1 or 2 bytes, and with
\* the leaf pointers of its node moved to, before and past the end of the file
ShortLeafFiles ==
    {SubSeq(WholeFile, 1, Len(WholeFile) - cut) : cut \in 1..WalkRecordBytes}
    \cup {Patch(WholeFile, WalkTreeStart + TREE_HEADER_LEN,
                LE32(Len(WholeFile) + d[1]) \o LE32(Len(WholeFile) + d[2])) :
             d \in {<<-2, -1>>, <<-1, 0>>, <<0, 3>>, <<-4, -2>>}}

DecodeFiles == CountryFiles \cup ShortLeafFiles

InitDecode == InitOn(DecodeFiles)

SpecDecode == InitDecode /\ [][Next]_vars

----------------------------------------------------------------------------
(* One streaming reader asked for one address after another.               *)

\* trees whose nodes below the root hold two holes or a leaf and a way on
ReuseShapes ==
    {t \in Shapes : \A i \in 2..NumNodes : t[i] \in {<<"hole", "hole">>, <<"leaf", "next">>}}

ReuseFiles ==
    {WalkFile(FALSE, blacklist, shape) : blacklist \in BOOLEAN, shape \in ReuseShapes}
    \cup DecodeFiles

\* the caller comes back with another address: the locals and the result of
\* the call before are gone, the readers stay as that call left them
Recall ==
    /\ turn = "done"
    /\ fr.state = "ok"
    /\ calls < MaxCalls
    /\ \E addr \in Inputs(fr.is_v6) : ip' = addr
    /\ turn' = "file"
    /\ fw' = IdleWalk
    /\ mw' = IdleWalk
    /\ fres' = NoOutcome
    /\ mres' = NoOutcome
    /\ UNCHANGED <<file, fr, mr, cursor, calls, aside>>

InitReuse == InitOn(ReuseFiles)

NextReuse ==
    \/ Next
    \/ Recall

SpecReuse == InitReuse /\ [][NextReuse]_vars

----------------------------------------------------------------------------
(* Several calls of MemoryReader::fetch in flight on one reader (&self is  *)
(* shared between threads).  A call advances by one loop iteration at a     *)
(* time, and the calls interleave in any order.                             *)

\* chains: every node but the last holds a leaf and the way on, the last
\* two leaves
ChainShapes ==
    {t \in Shapes :
        /\ \A i \in 1..(NumNodes - 1) : t[i] \in {<<"leaf", "next">>, <<"next", "leaf">>}
        /\ t[NumNodes] = <<"leaf", "leaf">>}

ChainFiles == {WalkFile(FALSE, FALSE, shape) : shape \in ChainShapes}

\* the locals of call 1, whichever call asks
SharedLocals(all, t) == all[1].w

\* the locals that call t works on: bits, bit_position, node_position and
\* previous are `let mut` of its own invocation (lines 246-249)
ThreadLocals(all, t) == all[t].w

\* a thread enters MemoryReader::fetch(&self, ip): the gate and the locals
Start ==
    /\ mr.state = "ok"
    /\ Len(threads) < NumThreads
    /\ \E addr \in Addresses(mr.is_v6) :
          \E overflow_checks \in Builds(addr) :
             LET gate == MemoryReader_gate(mr, addr)
             IN threads' = Append(threads,
                    [ip |-> addr, build |-> overflow_checks,
                     w |-> IF gate.tag = "ok" THEN MemoryReader_locals(mr, addr) ELSE IdleWalk,
                     out |-> IF gate.tag = "ok" THEN Running
                             ELSE Outcome("err", gate.err, None, DefaultRecord)])
    /\ UNCHANGED <<file, fr, mr, cursor, ip, turn, fw, mw, fres, mres, calls, arg, ret>>

\* a thread runs one iteration of the loop of its call
Step ==
    /\ \E t \in DOMAIN threads :
          /\ threads[t].out.tag = "running"
          /\ \E it \in {MemoryReader_iteration(mr, file, ThreadLocals(threads, t),
                                                threads[t].build)} :
                threads' = [threads EXCEPT ![t].w = it.w, ![t].out = it.out]
    /\ UNCHANGED <<file, fr, mr, cursor, ip, turn, fw, mw, fres, mres, calls, arg, ret>>

InitConcurrent == InitOn(ChainFiles)

NextConcurrent ==
    \/ FileReader_open
    \/ MemoryReader_open
    \/ Start
    \/ Step

SpecConcurrent == InitConcurrent /\ [][NextConcurrent]_vars

----------------------------------------------------------------------------
(* Fetches on files whose header declares records shorter than, or as long *)
(* as, the columns need.                                                    *)

NarrowColumns ==
    {<<[name |-> NAME_ASN, record_type |-> INT_DATA], ZeroFraudScoreColumn>>,
     <<ZeroFraudScoreColumn>>}

\* the file of ColumnFile with record_bytes bytes to a leaf: the leaves are
\* the first record_bytes bytes of the full ones
NarrowFile(columns, binary_data, record_bytes) ==
    OneNodeFile(FlagByte(FALSE, FALSE, binary_data), RUST_IPQS_READER_VERSION,
                <<record_bytes, 0>>,
                [c \in 1..Len(columns) |->
                    Descriptor(columns[c].name, columns[c].record_type)],
                SubSeq(ColumnLeaf(columns, binary_data, 0, 0), 1, record_bytes),
                SubSeq(ColumnLeaf(columns, binary_data, 1, 0), 1, record_bytes),
                <<>>)

NarrowFiles ==
    UNION {{NarrowFile(columns, binary_data, record_bytes) :
               record_bytes \in 1..ColumnRecordBytes(columns, binary_data)} :
           columns \in NarrowColumns, binary_data \in BOOLEAN}

InitNarrow == InitOn(NarrowFiles)

SpecNarrow == InitNarrow /\ [][Next]_vars

----------------------------------------------------------------------------
(* Fetches on deep trees.  A tree for addresses of L bits has                *)
(*   the root (depth 0): left the node N, right leaf A;                      *)
(*   N (depth 1): left the comb, right the spine;                            *)
(*   the spine, depths 2..L-1: left the next spine node (a hole in the last *)
(*   one), right leaf A;                                                     *)
(*   the comb, depths 2..D: left the next comb node (leaf B in the last     *)
(*   one), right a hole.                                                     *)
(* Every node has a child that is no hole, and no node lies deeper than L.  *)

DeepLeafA(L, D) == WalkTreeStart + TREE_HEADER_LEN + NODE_LEN * (L + D - 1)
DeepLeafB(L, D) == DeepLeafA(L, D) + WalkRecordBytes
DeepOffset(n) == WalkTreeStart + TREE_HEADER_LEN + NODE_LEN * (n - 1)

\* the two child values of node n: 1 the root, 2 N, 3..L the spine,
\* L+1..L+D-1 the comb
DeepNode(L, D, n) ==
    IF n = 1 THEN <<DeepOffset(2), DeepLeafA(L, D)>>
    ELSE IF n = 2 THEN <<DeepOffset(L + 1), DeepOffset(3)>>
    ELSE IF n <= L THEN <<IF n = L THEN 0 ELSE DeepOffset(n + 1), DeepLeafA(L, D)>>
    ELSE <<IF n = L + D - 1 THEN DeepLeafB(L, D) ELSE DeepOffset(n + 1), 0>>

DeepFile(v6, D) ==
    LET L == IF v6 THEN V6_BITS ELSE V4_BITS
        body == [i \in 1..(NODE_LEN * (L + D - 1)) |->
                    LE32(DeepNode(L, D, ((i - 1) \div NODE_LEN) + 1)
                             [(((i - 1) % NODE_LEN) \div 4) + 1])[((i - 1) % 4) + 1]]
    IN FileBytes(FlagByte(v6, FALSE, FALSE), RUST_IPQS_READER_VERSION,
                 <<WalkTreeStart, 0, 0>>, <<WalkRecordBytes, 0>>, WalkColumns,
                 TREE_DATA, TREE_HEADER_LEN + NODE_LEN * (L + D - 1), <<>>,
                 body \o WalkLeaf(1, 0) \o WalkLeaf(1, 1))

\* comb depths: on 32 bits the deepest two; on 128 bits the deepest that a
\* walk down the spine and then down the comb ends within the passes of the
\* loop, and the next
DeepCombs(v6) ==
    IF v6 THEN {((MAX_ITERATIONS - V6_BITS - 1) \div 2) + 1, ((MAX_ITERATIONS - V6_BITS - 1) \div 2) + 2}
    ELSE {V4_BITS - 2, V4_BITS - 1}

DeepFiles == UNION {{DeepFile(v6, D) : D \in DeepCombs(v6)} : v6 \in BOOLEAN}

InitDeep == InitOn(DeepFiles)

SpecDeep == InitDeep /\ [][Next]_vars

----------------------------------------------------------------------------
(* One fetch of each reader taken one loop iteration at a time, so that     *)
(* the locals are visible at the start of every iteration.                  *)

StepFiles == {WalkFile(FALSE, blacklist, shape) : blacklist \in BOOLEAN, shape \in ReuseShapes}

\* both fetches are entered with one address: the family checks and the locals
Enter ==
    /\ turn = "none"
    /\ ip = NoIp
    /\ fr.state = "ok"
    /\ mr.state = "ok"
    /\ \E addr \in Inputs(fr.is_v6) :
          /\ ip' = addr
          /\ fw' = IF FileReader_gate(fr, addr).tag = "ok"
                   THEN FileReader_locals(fr, addr) ELSE IdleWalk
          /\ fres' = IF FileReader_gate(fr, addr).tag = "ok" THEN Running
                     ELSE Outcome("err", FileReader_gate(fr, addr).err, None, DefaultRecord)
          /\ mw' = IF MemoryReader_gate(mr, addr).tag = "ok"
                   THEN MemoryReader_locals(mr, addr) ELSE IdleWalk
          /\ mres' = IF MemoryReader_gate(mr, addr).tag = "ok" THEN Running
                     ELSE Outcome("err", MemoryReader_gate(mr, addr).err, None, DefaultRecord)
    /\ turn' = "file"
    /\ UNCHANGED <<file, fr, mr, cursor, calls, aside>>

\* one iteration of the loop of FileReader::fetch
FileStep ==
    /\ turn = "file"
    /\ fres.tag = "running"
    /\ \E it \in {FileReader_iteration(fr, file, fw, cursor)} :
          /\ fw' = it.w
          /\ fres' = it.out
          /\ cursor' = it.cursor
    /\ UNCHANGED <<file, fr, mr, ip, turn, mw, mres, calls, aside>>

\* one iteration of the loop of MemoryReader::fetch, once the streaming
\* fetch has returned
MemStep ==
    /\ turn = "file"
    /\ fres.tag # "running"
    /\ mres.tag = "running"
    /\ \E overflow_checks \in Builds(ip) :
          \E it \in {MemoryReader_iteration(mr, file, mw, overflow_checks)} :
             /\ mw' = it.w
             /\ mres' = it.out
    /\ UNCHANGED <<file, fr, mr, cursor, ip, turn, fw, fres, calls, aside>>

InitWalk == InitOn(StepFiles)

NextWalk ==
    \/ FileReader_open
    \/ MemoryReader_open
    \/ Enter
    \/ FileStep
    \/ MemStep

SpecWalk == InitWalk /\ [][NextWalk]_vars

----------------------------------------------------------------------------
(* Fetches on files whose leaves differ in their flag bytes and common byte. *)

\* byte values: no bit, each single bit, every bit
FlagBytes == {0, 255} \cup {Pow2(j) : j \in 0..7}

\* with the binary-data bit: the left leaf holds the flag bytes (first,
\* second), the right leaf their complements; the common bytes differ from
\* each other.  Without it: leaves of a common byte and a fraud score
FlagFiles ==
    {OneNodeFile(FlagByte(FALSE, FALSE, TRUE), RUST_IPQS_READER_VERSION, <<4, 0>>, WalkColumns,
                 <<first, second, 160, 10>>, <<255 - first, 255 - second, 72, 11>>, <<>>) :
        first \in FlagBytes, second \in FlagBytes}
    \cup {OneNodeFile(FlagByte(FALSE, FALSE, FALSE), RUST_IPQS_READER_VERSION, <<2, 0>>, WalkColumns,
                      <<common, 10>>, <<255 - common, 11>>, <<>>) :
             common \in FlagBytes}

InitFlags == InitOn(FlagFiles)

SpecFlags == InitFlags /\ [][Next]_vars

----------------------------------------------------------------------------
(* Fetches on files whose columns pair every name with every stored type.  *)

\* a column of a known name under each type, then OneFraudScore as a small
\* integer: where the second field is found shows the width given to the first
LayoutColumns ==
    {<<[name |-> name, record_type |-> record_type],
       [name |-> NAME_OneFraudScore, record_type |-> SMALL_INT_DATA]>> :
        name \in {NAME_ASN, NAME_Latitude, NAME_ZeroFraudScore, NAME_Country},
        record_type \in {SMALL_INT_DATA, INT_DATA, FLOAT_DATA, STRING_DATA}}

\* leaf k of such a file: flag bytes, common byte, the first field in the
\* width of its type (the pool offset for a string), the score 90 + k
LayoutLeaf(columns, binary_data, k, pool_offset) ==
    (IF binary_data THEN <<1 + k, 2 + k>> ELSE <<>>) \o <<8 * (1 + k)>>
    \o (IF columns[1].record_type = STRING_DATA THEN LE32(pool_offset)
        ELSE IF columns[1].record_type = SMALL_INT_DATA THEN <<31 + k>>
        ELSE <<31 + k, 41 + k, 51 + k, 0>>)
    \o <<90 + k>>

LayoutFile(columns, binary_data) ==
    LET record_bytes == Len(LayoutLeaf(columns, binary_data, 0, 0))
        pool_offset == HEADER_LEN + COLUMN_DESCRIPTOR_LENGTH * Len(columns)
                       + OneNodeTreeSize + 2 * record_bytes
    IN OneNodeFile(FlagByte(FALSE, FALSE, binary_data), RUST_IPQS_READER_VERSION,
                   <<record_bytes, 0>>,
                   [c \in 1..Len(columns) |->
                       Descriptor(columns[c].name, columns[c].record_type)],
                   LayoutLeaf(columns, binary_data, 0, pool_offset),
                   LayoutLeaf(columns, binary_data, 1, pool_offset),
                   ColumnPool)

LayoutFiles ==
    {LayoutFile(columns, binary_data) : columns \in LayoutColumns, binary_data \in BOOLEAN}

InitLayout == InitOn(LayoutFiles)

SpecLayout == InitLayout /\ [][Next]_vars

----------------------------------------------------------------------------
(* Calls of the free functions, each on an argument of its own.            *)

\* no file, no reader and no fetch
NoReaders ==
    /\ file = <<>>
    /\ fr = ClosedReader
    /\ mr = ClosedReader
    /\ cursor = 0
    /\ ip = NoIp
    /\ turn = "none"
    /\ fw = IdleWalk
    /\ mw = IdleWalk
    /\ fres = NoOutcome
    /\ mres = NoOutcome
    /\ calls = 0
    /\ threads = <<>>

\* u64 values below 2^63: zero, every power of two, every 2^(e+1) - 1, and 275
VarintValues ==
    {{}} \cup {{e} : e \in 0..(U64_BITS - 2)} \cup {0..e : e \in 0..(U64_BITS - 2)}
    \cup {{0, 1, 4, 8}}

\* the base-128 encoding of a u64: 7 bits a byte from the low end, the high
\* bit set on every byte but the last
VarintGroup(v, i) ==
    U64Value({k \in 0..6 : 7 * i + k \in v})

VarintLen(v) ==
    IF v = {} THEN 1 ELSE ((CHOOSE e \in v : \A f \in v : f <= e) \div 7) + 1

put_uvarint(v) ==
    [i \in 1..VarintLen(v) |->
        VarintGroup(v, i - 1) + (IF i < VarintLen(v) THEN 128 ELSE 0)]

\* bytes that follow the terminator inside the slice
Surplus ==
    {<<>>} \cup {[i \in 1..n |-> b] : n \in 1..MaxSurplus, b \in {0, 1, 147}}

\* a value and a slice that holds its encoding
Encoded ==
    {[value |-> v, bytes |-> put_uvarint(v) \o t] : v \in VarintValues, t \in Surplus}

EncodedSlices == {e.bytes : e \in Encoded}

\* slices in which every byte has its high bit set
UnterminatedSlices ==
    {[i \in 1..n |-> b] : n \in 1..MAX_VAR_INT_LEN_64, b \in {128, 255}}

\* slices that need a 10th byte
TenByteSlices ==
    {[i \in 1..MAX_VAR_INT_LEN_64 |-> IF i < MAX_VAR_INT_LEN_64 THEN c ELSE last] :
        c \in {128, 255}, last \in {0, 1, 2, 127}}

\* `[11; 0xff]` and its like just past the longest varint
TooLongSlices ==
    {[i \in 1..n |-> TOO_LONG_BYTE] : n \in {MAX_VAR_INT_LEN_64 + 1, TOO_LONG_LEN}}

VarintSlices == EncodedSlices \cup UnterminatedSlices \cup TenByteSlices \cup TooLongSlices

InitVarint ==
    /\ NoReaders
    /\ arg \in VarintSlices
    /\ ret = <<>>

\* uvarint64(&bytes)
Uvarint64 ==
    /\ ret = <<>>
    /\ ret' = uvarint64(arg)
    /\ UNCHANGED <<file, fr, mr, cursor, ip, turn, fw, mw, fres, mres, calls, threads, arg>>

NextVarint == Uvarint64

SpecVarint == InitVarint /\ [][NextVarint]_vars

\* child values and tree bounds on either side of each other
NodeValues == {0, 9, 10, 20, 99, 100, 200, 258, 65539, 16777216}

TreeBounds ==
    {b \in {0, 10, 100, 258, 65539} \X {10, 100, 200, 65539} : b[1] <= b[2]}

\* create_node of the tests
create_node(left, right) == LE32(left) \o LE32(right)

NodeCalls ==
    {[bit |-> bit, node |-> create_node(left, right),
      tree_start |-> b[1], tree_end |-> b[2]] :
        bit \in BOOLEAN, left \in NodeValues, right \in NodeValues, b \in TreeBounds}

InitNode ==
    /\ NoReaders
    /\ arg \in NodeCalls
    /\ ret = <<>>

\* next_node(bit, &node, tree_start, tree_end)
NextNodeCall ==
    /\ ret = <<>>
    /\ ret' = next_node(arg.bit, arg.node, arg.tree_start, arg.tree_end)
    /\ UNCHANGED <<file, fr, mr, cursor, ip, turn, fw, mw, fres, mres, calls, threads, arg>>

NextOfNode == NextNodeCall

SpecNode == InitNode /\ [][NextOfNode]_vars

\* The backtrack step called on an address and an index
\* (test_address_try_backtrack): addresses of a prefix and a fill, of one
\* set bit, and the address of the test
BacktrackAddresses(v6) ==
    Addresses(v6)
    \cup {[v6 |-> v6,
           octets |-> [k \in 1..(IF v6 THEN 16 ELSE 4) |-> IF k = at THEN octet ELSE 0]] :
             at \in {1, 3, 4}, octet \in {1, 128}}
    \cup {[v6 |-> v6,
           octets |-> [k \in 1..(IF v6 THEN 16 ELSE 4) |-> IF k \in {1, 3} THEN 128 ELSE 0]]}

BacktrackCalls ==
    {[addr |-> addr, index |-> index] :
        addr \in BacktrackAddresses(FALSE), index \in 0..(V4_BITS - 1)}
    \cup {[addr |-> addr, index |-> index] :
             addr \in BacktrackAddresses(TRUE), index \in 0..(V6_BITS - 1)}

InitBacktrack ==
    /\ NoReaders
    /\ arg \in BacktrackCalls
    /\ ret = <<>>

\* AddressBits::try_backtrack(index) on the address
TryBacktrack ==
    /\ ret = <<>>
    /\ \E overflow_checks \in BOOLEAN :
          \E back \in {AddressBits_try_backtrack(AddressBits_from(arg.addr), arg.index,
                                                 overflow_checks)} :
             ret' = IF back.tag # "ok"
                    THEN [reader |-> "resident", tag |-> back.tag, index |-> None, after |-> <<>>]
                    ELSE [reader |-> "resident", tag |-> "ok", index |-> back.val.index,
                          after |-> [q \in 1..back.val.bits.len |->
                                        AddressBits_position(back.val.bits, q - 1)]]
    /\ UNCHANGED <<file, fr, mr, cursor, ip, turn, fw, mw, fres, mres, calls, threads, arg>>

\* the scan `for i in 0..position + 1` of FileReader::fetch on the address
ScanBack ==
    /\ ret = <<>>
    /\ \E bits \in {binary_representation(arg.addr)} :
          \E found \in {FileReader_scan(bits, arg.index, 0)} :
             ret' = [reader |-> "streaming", tag |-> "ok", index |-> found,
                     after |-> IF found = None THEN bits
                               ELSE FileReader_rewrite(bits, found[1])]
    /\ UNCHANGED <<file, fr, mr, cursor, ip, turn, fw, mw, fres, mres, calls, threads, arg>>

NextBacktrack ==
    \/ TryBacktrack
    \/ ScanBack

SpecBacktrack == InitBacktrack /\ [][NextBacktrack]_vars

\* connection_type and abuse_velocity called on a byte (tests ct_*, ab_*)
InitByte ==
    /\ NoReaders
    /\ arg \in Byte
    /\ ret = <<>>

DecodeCommonByte ==
    /\ ret = <<>>
    /\ ret' = [connection_type |-> connection_type(arg),
               abuse_velocity |-> abuse_velocity(arg)]
    /\ UNCHANGED <<file, fr, mr, cursor, ip, turn, fw, mw, fres, mres, calls, threads, arg>>

NextByte == DecodeCommonByte

SpecByte == InitByte /\ [][NextByte]_vars

----------------------------------------------------------------------------
(* Properties.  They are stated on the state after the calls: fres and fw  *)
(* are the result and final locals of FileReader::fetch, mres and mw those *)
(* of MemoryReader::fetch, on the same file and address.                   *)

FileDone == fres.tag # "none"
MemDone == mres.tag # "none"
Fetched == FileDone /\ MemDone
RightFamily == ip.v6 = (IF fr.state = "ok" THEN fr.is_v6 ELSE mr.is_v6)

\* a streaming record and the accessors of a resident record agree
SameRecord(record, accessors) ==
    \A f \in DOMAIN record :
        IF f = "fraud_score"
        THEN \A s \in 1..4 : accessors[f][s] = Ok(record[f][s])
        ELSE accessors[f] = Ok(record[f])

\* C1: for a file both readers accept and an address of its family, the two
\* fetches have the same outcome: both fail with the same error, or both
\* succeed with records equal on every accessor.
C1_Parity ==
    (Fetched /\ RightFamily) =>
        \/ fres.tag = "err" /\ mres.tag = "err" /\ fres.err = mres.err
        \/ /\ fres.tag = "ok"
           /\ mres.tag = "ok"
           /\ SameRecord(fres.record, MemRecord_accessors(file, mr, mres.leaf[1]))

\* The tree as spec.md describes it, read off the file bytes: the child value
\* stored for bit b in the node at offset o
ChildAt(o, b) ==
    LET at == o + 4 * b
    IN file[at + 1] + 256 * file[at + 2] + 65536 * file[at + 3] + 16777216 * file[at + 4]

Root == mr.tree_start + TREE_HEADER_LEN

\* the leaf that the plain descent from node o along prefix[i..] ends in, if any
RECURSIVE DescentLeaf(_, _, _)
DescentLeaf(o, prefix, i) ==
    IF i > Len(prefix) \/ o + NODE_LEN > Len(file) THEN None
    ELSE LET v == ChildAt(o, prefix[i])
         IN IF v < mr.tree_start THEN None
            ELSE IF v >= mr.tree_end THEN Some(v)
            ELSE DescentLeaf(v, prefix, i + 1)

\* does the descent along prefix[i..] still stand on a node when the prefix ends?
RECURSIVE Overruns(_, _, _)
Overruns(o, prefix, i) ==
    IF i > Len(prefix) THEN TRUE
    ELSE IF o + NODE_LEN > Len(file) THEN FALSE
    ELSE LET v == ChildAt(o, prefix[i])
         IN IF v < mr.tree_start \/ v >= mr.tree_end THEN FALSE
            ELSE Overruns(v, prefix, i + 1)

Prefixes == [1..NumNodes -> {0, 1}]

RECURSIVE PrefixNum(_, _)
PrefixNum(prefix, i) ==
    IF i > Len(prefix) THEN 0
    ELSE prefix[i] * Pow2(Len(prefix) - i) + PrefixNum(prefix, i + 1)

\* the leading NumNodes bits of the queried address
QueryPrefix == [i \in 1..NumNodes |-> (ip.octets[1] \div Pow2(8 - i)) % 2]

\* every path of the tree ends within NumNodes levels
Shallow == \A p \in Prefixes : ~Overruns(Root, p, 1)

\* the prefixes below the queried one that have a record
Below ==
    {p \in Prefixes : /\ PrefixNum(p, 1) < PrefixNum(QueryPrefix, 1)
                      /\ DescentLeaf(Root, p, 1) # None}

Predecessor == CHOOSE p \in Below : \A q \in Below : PrefixNum(q, 1) <= PrefixNum(p, 1)

\* C2: in a non-blacklist file whose tree is no deeper than the address, when
\* the walk for the address hits a hole and a smaller address has a record,
\* both fetches return the record of the largest such address.
C2_HoleFallback ==
    (/\ Fetched
     /\ RightFamily
     /\ ~mr.is_blacklist
     /\ Shallow
     /\ DescentLeaf(Root, QueryPrefix, 1) = None
     /\ Below # {}) =>
        /\ fres.tag = "ok"
        /\ fres.leaf = DescentLeaf(Root, Predecessor, 1)
        /\ mres.tag = "ok"
        /\ mres.leaf = DescentLeaf(Root, Predecessor, 1)

\* C3: every fetch returns a record or an error, after at most 257 node reads.
C3_Terminates ==
    /\ FileDone => fres.tag \in {"ok", "err"} /\ fw.reads <= MAX_ITERATIONS
    /\ MemDone => mres.tag \in {"ok", "err"} /\ mw.reads <= MAX_ITERATIONS

WrongFamily(reader_is_v6) ==
    IF reader_is_v6
    THEN "attempted to fetch IPv4 record using IPv6 data file"
    ELSE "attempted to fetch IPv6 record using IPv4 data file"

\* C4: a fetch of an address of the other family returns the WrongFamily error
\* in both readers, and no tree node is read before it is returned.
C4_FamilyGate ==
    /\ (FileDone /\ ip.v6 # fr.is_v6) =>
          /\ fres.tag = "err"
          /\ fres.err = WrongFamily(fr.is_v6)
          /\ fw.reads = 0
          /\ fw.iter = 0
    /\ (MemDone /\ ip.v6 # mr.is_v6) =>
          /\ mres.tag = "err"
          /\ mres.err = WrongFamily(mr.is_v6)
          /\ mw.reads = 0
          /\ mw.iter = 0

\* C4: both readers of an IPv6 file have been asked for an IPv4 address
C4_Witness == Fetched /\ fr.is_v6 /\ mr.is_v6 /\ ~ip.v6

\* C5: in a non-blacklist file, once a hole is met with no set bit at or before
\* the position, fetch ends with the not-found error and reads no node again.
C5_StuckHole ==
    /\ (FileDone /\ ~fr.is_blacklist /\ fw.stuck # None) =>
          fres.tag = "err" /\ fres.err = "EID10" /\ fw.after_stuck = {}
    /\ (MemDone /\ ~mr.is_blacklist /\ mw.stuck # None) =>
          mres.tag = "err" /\ mres.err = "EID10" /\ mw.after_stuck = {}

\* C6: in a blacklist file, a selected child value below tree_start ends fetch
\* with the not-found error: no node is read after it and no leaf is followed.
C6_BlacklistHole ==
    /\ (FileDone /\ fr.is_blacklist /\ fw.first_hole # None) =>
          /\ fres.tag = "err"
          /\ fres.err = "EID10"
          /\ fw.reads = fw.first_hole[1]
          /\ fw.leaf = None
    /\ (MemDone /\ mr.is_blacklist /\ mw.first_hole # None) =>
          /\ mres.tag = "err"
          /\ mres.err = "EID10"
          /\ mw.reads = mw.first_hole[1]
          /\ mw.leaf = None

C8_AddressExhausted ==
    /\ (FileDone /\ fw.iter > 0 /\ fw.position = Len(fw.bits)) =>
          fres.tag = "err" /\ fres.err = "EID9"
    /\ (MemDone /\ mw.iter > 0 /\ mw.position = mw.bits.len) =>
          mres.tag = "err" /\ mres.err = "EID9"

KnownNames ==
    {NAME_ASN, NAME_Latitude, NAME_Longitude, NAME_ZeroFraudScore, NAME_OneFraudScore,
     NAME_TwoFraudScore, NAME_ThreeFraudScore, NAME_Country, NAME_City, NAME_Region,
     NAME_ISP, NAME_Organization, NAME_Timezone}

HasUnknownColumn == \E c \in 1..Len(mr.columns) : mr.columns[c].name \notin KnownNames

\* the record offset of column c as spec.md lays a leaf out
RECURSIVE SpecColumnOffset(_, _, _)
SpecColumnOffset(columns, c, binary_data) ==
    IF c = 1 THEN (IF binary_data THEN 3 ELSE 1)
    ELSE SpecColumnOffset(columns, c - 1, binary_data)
         + FieldWidth(columns[c - 1].record_type)

\* C9: on a file with a column of an unknown name fetch succeeds in both
\* readers, and a fraud score declared next to it is decoded at the offset that
\* the widths of the columns before it give.
C9_UnknownColumn ==
    (Fetched /\ RightFamily /\ HasUnknownColumn
     /\ mres.tag = "ok" /\ mres.leaf[1] + mr.record_bytes <= Len(file)) =>
        /\ fres.tag = "ok"
        /\ \A c \in 1..Len(mr.columns) :
              mr.columns[c].name = NAME_ZeroFraudScore =>
                 LET byte == file[mres.leaf[1]
                                  + SpecColumnOffset(mr.columns, c, mr.binary_data) + 1]
                 IN /\ fres.record.fraud_score[1] = Some(byte)
                    /\ MemRecord_fraud_score(file, mr, mres.leaf[1], 0) = Ok(Some(byte))

\* the header as spec.md reads it: the family bits, and the record_bytes varint
\* of header bytes 5-6
OneFamily == (file[1] % 2 = 1) # ((file[1] \div 2) % 2 = 1)
SpecRecordBytes ==
    IF file[6] < 128 THEN file[6]
    ELSE (file[6] - 128) + 128 * (file[7] % 128)
SpecTreeStartOk == file[3] < 128 /\ file[3] > 11 /\ (file[3] - 11) % 24 = 0

Constructed(r) ==
    /\ r.state # "closed"
    /\ ~OneFamily => r.state = "err" /\ r.err = "EID1"
    /\ (OneFamily /\ file[2] # 1) => r.state = "err" /\ r.err = "EID2"
    /\ (OneFamily /\ file[2] = 1 /\ SpecTreeStartOk /\ SpecRecordBytes = 0) =>
          r.state = "err" /\ r.err = "EID6"
    /\ r.state = "ok" =>
          /\ OneFamily
          /\ file[2] = 1
          /\ r.record_bytes > 0
          /\ r.is_v6 = ((file[1] \div 2) % 2 = 1)
          /\ r.is_blacklist = ((file[1] \div 4) % 2 = 1)

\* C10: construction, in both readers, fails with BadMagic (EID 1) on a flag
\* byte with both or neither family bit, else with BadVersion (EID 2) on a
\* version byte other than 1, else (the header size being in order) with
\* BadRecordSize (EID 6) on a record_bytes varint that decodes to 0; a reader
\* that is constructed has exactly one family bit, version 1, record_bytes > 0,
\* and is_v6 / is_blacklist equal to header bits 1 and 2.
C10_Construction ==
    /\ fr.state # "closed" => Constructed(fr)
    /\ mr.state # "closed" => Constructed(mr)

\* C10: both constructions have failed on a record_bytes of 0
C10_Witness ==
    /\ fr.state = "err" /\ fr.err = "EID6"
    /\ mr.state = "err" /\ mr.err = "EID6"

\* the call of uvarint64 has returned
Decoded == ret # <<>>

\* C14 as claimed: uvarint64 of the encoding of v, with or without surplus
\* bytes after the terminator, returns v, for every v below 2^63.
C14_RoundTrip ==
    Decoded =>
        \A e \in Encoded : arg = e.bytes => ret = Ok(e.value)

\* C14, amended: uvarint64 of the encoding of v, with or without surplus
\* bytes after the terminator, returns v for every v below 2^63, as long as the
\* slice is no longer than 10 bytes.
C14_RoundTripInTenBytes ==
    Decoded =>
        \A e \in Encoded :
            (arg = e.bytes /\ Len(arg) <= MAX_VAR_INT_LEN_64) => ret = Ok(e.value)

\* C14: [0x93, 0x02, 0x01] has been decoded to 275, the surplus byte ignored
C14_Witness ==
    /\ arg = <<147, 2, 1>>
    /\ ret = Ok({0, 1, 4, 8})
    /\ U64Value(ret.val) = 275

\* C15: uvarint64 returns an error, and no value, (a) for a slice in which
\* every byte has its high bit set, (b) when the 10th byte is the terminator and
\* is greater than 1, (c) for a slice longer than 10 bytes.
C15_Malformed ==
    Decoded =>
        /\ (Len(arg) >= 1 /\ \A i \in 1..Len(arg) : arg[i] >= 128) => ret.tag = "err"
        /\ (/\ Len(arg) = MAX_VAR_INT_LEN_64
            /\ \A i \in 1..(MAX_VAR_INT_LEN_64 - 1) : arg[i] >= 128
            /\ arg[MAX_VAR_INT_LEN_64] < 128
            /\ arg[MAX_VAR_INT_LEN_64] > 1) => ret.tag = "err"
        /\ Len(arg) > MAX_VAR_INT_LEN_64 => ret.tag = "err"

\* the little-endian u32 that the bit selects in the node of the call
SelectedValue ==
    LET o == IF arg.bit THEN 4 ELSE 0
    IN arg.node[o + 1] + 256 * arg.node[o + 2] + 65536 * arg.node[o + 3]
       + 16777216 * arg.node[o + 4]

\* C16: next_node returns Missing iff the selected value v is below tree_start,
\* Record(v) iff v is at or above tree_end, and NextNode(v) otherwise.
C16_Classifier ==
    ret # <<>> =>
        /\ ret.kind \in {"Missing", "Record", "NextNode"}
        /\ ret.kind = "Missing" <=> SelectedValue < arg.tree_start
        /\ ret.kind = "Record" <=>
              (SelectedValue >= arg.tree_start /\ SelectedValue >= arg.tree_end)
        /\ ret.kind = "NextNode" <=>
              (SelectedValue >= arg.tree_start /\ SelectedValue < arg.tree_end)
        /\ ret.kind # "Missing" => ret.at = SelectedValue

\* C16: with tree_start 10 and tree_end 100, the right child 200 of the node
\* (0, 200) has been classified as Record(200)
C16_Witness ==
    /\ arg = [bit |-> TRUE, node |-> <<0, 0, 0, 0, 200, 0, 0, 0>>,
              tree_start |-> 10, tree_end |-> 100]
    /\ ret = [kind |-> "Record", at |-> 200]

\* the readers that have been constructed, or have failed to be
Opened == {r \in {fr, mr} : r.state # "closed"}

\* the file holds the 11 header bytes, with one family bit and version 1
HeadOk == Len(file) >= HEADER_LEN /\ OneFamily /\ file[2] = RUST_IPQS_READER_VERSION

\* tree_start as spec.md reads it, for a varint of one byte
SpecTreeStart == file[3]

Failed(r, e) == r.state = "err" /\ r.err = e

\* C11: with the flag byte and the version in order, a tree_start below 11
\* gives BadHeaderSize (EID 3), a tree_start of 11 NoColumns (EID 4) and a
\* column block length that is no multiple of 24 BadColumnBlockLength (EID 5),
\* each as an error value, in both readers.
C11_HeaderSize ==
    \A r \in Opened :
        (HeadOk /\ file[3] < 128) =>
            /\ SpecTreeStart < HEADER_LEN => Failed(r, "EID3")
            /\ SpecTreeStart = HEADER_LEN => Failed(r, "EID4")
            /\ (SpecTreeStart > HEADER_LEN
                /\ (SpecTreeStart - HEADER_LEN) % COLUMN_DESCRIPTOR_LENGTH # 0) =>
                  Failed(r, "EID5")

\* the header is in order and the file holds the column block and the 5 bytes
\* of the tree header
TreeHeaderRead ==
    /\ HeadOk
    /\ SpecTreeStartOk
    /\ SpecRecordBytes # 0
    /\ Len(file) >= SpecTreeStart + TREE_HEADER_LEN

SpecTreeFlag == (file[SpecTreeStart + 1] \div TREE_DATA) % 2 = 1

SpecTreeSize ==
    file[SpecTreeStart + 2] + 256 * file[SpecTreeStart + 3]
    + 65536 * file[SpecTreeStart + 4] + 16777216 * file[SpecTreeStart + 5]

\* C12: the resident reader is constructed only if the tree-data bit is set,
\* the tree size is not 0 and tree_start + size is within the buffer; a clear
\* bit gives BadTreeFlag (EID 7), a size of 0 EmptyTree (EID 8), and a tree_end
\* beyond the buffer is rejected.
C12_TreeHeader ==
    (mr.state # "closed" /\ TreeHeaderRead) =>
        /\ ~SpecTreeFlag => Failed(mr, "EID7")
        /\ (SpecTreeFlag /\ SpecTreeSize = 0) => Failed(mr, "EID8")
        /\ SpecTreeStart + SpecTreeSize > Len(file) => mr.state # "ok"
        /\ mr.state = "ok" =>
              /\ SpecTreeFlag
              /\ SpecTreeSize # 0
              /\ mr.tree_end <= Len(file)

\* the file ends inside the header, the column block or the tree header
Truncated ==
    \/ Len(file) < HEADER_LEN
    \/ /\ HeadOk
       /\ SpecTreeStartOk
       /\ SpecRecordBytes # 0
       /\ Len(file) < SpecTreeStart + TREE_HEADER_LEN

\* C13: construction from bytes that end before the header, the column block
\* or the tree header is complete fails with TruncatedFile, an error value, in
\* both readers.
C13_Truncated ==
    \A r \in Opened :
        Truncated => Failed(r, "failed to fill whole buffer")

\* the Country field of the leaf at p as spec.md reads it: the offset of a
\* length-prefixed string
SpecStringOffset(p) == four_byte_int(Slice(file, p + 1, p + 5))

\* the string at offset o lies outside the file or is no UTF-8
BadStringAt(o) ==
    \/ o + 1 > Len(file)
    \/ o + 1 + file[o + 1] > Len(file)
    \/ ~valid_utf8(Slice(file, o + 1, o + 1 + file[o + 1]), 1)

\* the walk of reader r with locals w ended on a leaf that lies within the
\* file and whose first column is Country
OnCountryLeaf(r, w) ==
    /\ r.state = "ok"
    /\ r.columns # <<>>
    /\ r.columns[1].name = NAME_Country
    /\ w.leaf # None
    /\ w.leaf[1] + r.record_bytes <= Len(file)

\* what a caller of the resident reader gets for the Country of the leaf
MemCountry == MemRecord_string_column(file, mw.leaf[1], mr.layout.country)

\* C17: a string column whose offset lies outside the file, or whose bytes
\* are no UTF-8, is an error value in both readers: not a record, not an
\* absent value and not a panic.
C17_BadString ==
    /\ (FileDone /\ OnCountryLeaf(fr, fw) /\ BadStringAt(SpecStringOffset(fw.leaf[1]))) =>
          fres.tag = "err"
    /\ (MemDone /\ OnCountryLeaf(mr, mw) /\ BadStringAt(SpecStringOffset(mw.leaf[1]))) =>
          \/ mres.tag = "err"
          \/ MemCountry.tag = "err"

\* the walk of reader r with locals w ended on a leaf pointer whose record
\* reaches past the end of the file
OnShortLeaf(r, w) ==
    /\ r.state = "ok"
    /\ w.leaf # None
    /\ w.leaf[1] + r.record_bytes > Len(file)

\* the accessors of a resident record at p that read outside the file
PastEnd(p) ==
    LET accessors == MemRecord_accessors(file, mr, p)
    IN {f \in DOMAIN accessors \ {"fraud_score"} : accessors[f].tag = "panic"}
       \cup {"fraud_score" : s \in {s \in 1..4 : accessors.fraud_score[s].tag = "panic"}}

\* C18: a leaf pointer p with p + record_bytes beyond the end of the file
\* gives an error value (TruncatedLeaf) in both readers, and no record is
\* returned whose accessors read past the end of the file.
C18_TruncatedLeaf ==
    /\ (FileDone /\ OnShortLeaf(fr, fw)) => fres.tag = "err"
    /\ (MemDone /\ OnShortLeaf(mr, mw)) => mres.tag = "err"
    /\ (MemDone /\ mres.tag = "ok") => PastEnd(mres.leaf[1]) = {}

\* stream positions a call can find: the start, where construction leaves
\* the stream, the end of the file and past it
Cursors == {0, fr.tree_start + TREE_HEADER_LEN, Len(file), Len(file) + NODE_LEN}

\* C19: whatever fetches went before, a fetch of the streaming reader returns
\* what it returns from any other stream position, that of a reader just
\* constructed among them, and the reader's tree_start, tree_end,
\* record_bytes, columns and flags are those of its construction.
C19_Reusable ==
    (FileDone /\ fr.state = "ok") =>
        /\ \A c \in Cursors : FileReader_fetch(fr, file, ip, c).out = fres
        /\ \E overflow_checks \in BOOLEAN : fr = FileReader_from_reader(file, overflow_checks)

\* C19: a second fetch has returned a record, made from a stream that the
\* first fetch left elsewhere than construction did
C19_Witness ==
    /\ calls = 2
    /\ turn = "done"
    /\ fres.tag = "ok"
    /\ cursor # fr.tree_start + TREE_HEADER_LEN

\* C20: a call of MemoryReader::fetch that ran interleaved with other calls
\* on the same reader returns what the call returns on its own, and the
\* reader is as it was constructed.
C20_Concurrent ==
    /\ \A t \in DOMAIN threads :
          threads[t].out.tag # "running" =>
              threads[t].out
                  = MemoryReader_fetch(mr, file, threads[t].ip, threads[t].build).out
    /\ mr.state = "ok" =>
          \E overflow_checks \in BOOLEAN : mr = MemoryReader_from_bytes(file, overflow_checks)

\* C20: the second call has returned a record while the first, for another
\* address, is between two iterations of its loop
C20_Witness ==
    /\ Len(threads) = 2
    /\ threads[1].out.tag = "running"
    /\ threads[1].w.reads >= 1
    /\ threads[2].out.tag = "ok"
    /\ threads[2].ip # threads[1].ip

\* the 14 boolean accessors as spec.md lists them: the leaf byte and the mask
SpecFlagMasks ==
    {<<"is_proxy", 0, 1>>, <<"is_vpn", 0, 2>>, <<"is_tor", 0, 4>>, <<"is_crawler", 0, 8>>,
     <<"is_bot", 0, 16>>, <<"recent_abuse", 0, 32>>, <<"is_blacklisted", 0, 64>>,
     <<"is_private", 0, 128>>, <<"is_mobile", 1, 1>>, <<"has_open_ports", 1, 2>>,
     <<"is_hosting_provider", 1, 4>>, <<"active_vpn", 1, 8>>, <<"active_tor", 1, 16>>,
     <<"public_access_point", 1, 32>>}

\* the value of accessor e on the leaf at p under the binary-data bit
SpecFlag(e, p, binary_data) ==
    IF binary_data THEN Some((file[p + e[2] + 1] \div e[3]) % 2 = 1) ELSE None

\* the common byte of the leaf at p under the binary-data bit
SpecCommonByte(p, binary_data) == file[p + (IF binary_data THEN 2 ELSE 0) + 1]

\* reader r was led to a leaf that holds its flag bytes and common byte
OnWholeHead(r, out) ==
    /\ r.state = "ok"
    /\ out.tag = "ok"
    /\ out.leaf[1] + (IF r.binary_data THEN 3 ELSE 1) <= Len(file)

\* C21: on a leaf either reader returns, the 14 boolean accessors are
\* Some(leaf byte 0 or 1 AND mask # 0) under the binary-data bit and None
\* without it, and connection type and abuse velocity are decoded from leaf
\* byte 2 under the bit and from leaf byte 0 without it.
C21_Flags ==
    /\ OnWholeHead(fr, fres) =>
          /\ \A e \in SpecFlagMasks :
                fres.record[e[1]] = SpecFlag(e, fres.leaf[1], fr.binary_data)
          /\ fres.record.connection_type
                = connection_type(SpecCommonByte(fres.leaf[1], fr.binary_data))
          /\ fres.record.abuse_velocity
                = abuse_velocity(SpecCommonByte(fres.leaf[1], fr.binary_data))
    /\ OnWholeHead(mr, mres) =>
          LET accessors == MemRecord_accessors(file, mr, mres.leaf[1])
          IN /\ \A e \in SpecFlagMasks :
                   accessors[e[1]] = Ok(SpecFlag(e, mres.leaf[1], mr.binary_data))
             /\ accessors.connection_type
                   = Ok(connection_type(SpecCommonByte(mres.leaf[1], mr.binary_data)))
             /\ accessors.abuse_velocity
                   = Ok(abuse_velocity(SpecCommonByte(mres.leaf[1], mr.binary_data)))

\* C21: both readers have returned a leaf with flag bytes 0x80 and 0x02: it
\* is private, not a proxy, not mobile, and has open ports
C21_Witness ==
    /\ OnWholeHead(fr, fres)
    /\ OnWholeHead(mr, mres)
    /\ mr.binary_data
    /\ file[mres.leaf[1] + 1] = 128
    /\ file[mres.leaf[1] + 2] = 2
    /\ fres.record.is_private = Some(TRUE)
    /\ fres.record.is_proxy = Some(FALSE)
    /\ MemRecord_accessors(file, mr, mres.leaf[1]).is_mobile = Ok(Some(FALSE))
    /\ MemRecord_accessors(file, mr, mres.leaf[1]).has_open_ports = Ok(Some(TRUE))

\* the masked values of spec.md: bits 3-5 and bits 6-7 of the byte, in place
SpecConnectionBits == 8 * ((arg \div 8) % 8)
SpecVelocityBits == 64 * (arg \div 64)

\* C22: for each of the 256 byte values, connection_type is "Residential",
\* "Mobile", "Corporate", "Data Center" or "Education" for the masked value
\* 0x20, 0x10, 0x30, 0x08 or 0x28 and "Unknown" for every other, and
\* abuse_velocity is "low", "medium", "high" or "none" for the masked value
\* 0x80, 0x40, 0xC0 or 0x00.
C22_CommonByte ==
    Decoded =>
        /\ ret.connection_type =
              (CASE SpecConnectionBits = 32 -> "Residential"
                 [] SpecConnectionBits = 16 -> "Mobile"
                 [] SpecConnectionBits = 48 -> "Corporate"
                 [] SpecConnectionBits = 8 -> "Data Center"
                 [] SpecConnectionBits = 40 -> "Education"
                 [] OTHER -> "Unknown")
        /\ ret.abuse_velocity =
              (CASE SpecVelocityBits = 128 -> "low"
                 [] SpecVelocityBits = 64 -> "medium"
                 [] SpecVelocityBits = 192 -> "high"
                 [] SpecVelocityBits = 0 -> "none")

\* C22: the byte 0b1111_0000 has been decoded as "Corporate" and "high"
C22_Witness ==
    /\ arg = 240
    /\ Decoded
    /\ ret.connection_type = "Corporate"
    /\ ret.abuse_velocity = "high"

\* the width of a column as spec.md gives it: 4 when the type flags include
\* string-data (0x08), int-data (0x20) or float-data (0x40), else 1
SpecWidth(record_type) ==
    IF \E flag \in {8, 32, 64} : (record_type \div flag) % 2 = 1 THEN 4 ELSE 1

\* the record offset of column c as spec.md lays a leaf out
RECURSIVE SpecLayoutOffset(_, _, _)
SpecLayoutOffset(columns, c, binary_data) ==
    IF c = 1 THEN (IF binary_data THEN 3 ELSE 1)
    ELSE SpecLayoutOffset(columns, c - 1, binary_data) + SpecWidth(columns[c - 1].record_type)

\* the byte of the leaf at p where the layout of spec.md puts OneFraudScore
SpecOneFraudScore(r, p) ==
    LET c == CHOOSE c \in 1..Len(r.columns) : r.columns[c].name = NAME_OneFraudScore
    IN file[p + SpecLayoutOffset(r.columns, c, r.binary_data) + 1]

\* the fetch of reader r returned a record of a file that declares OneFraudScore
HasOneFraudScore(r, out) ==
    /\ r.state = "ok"
    /\ out.tag = "ok"
    /\ \E c \in 1..Len(r.columns) : r.columns[c].name = NAME_OneFraudScore
    /\ out.leaf[1] + r.record_bytes <= Len(file)

\* C23: both readers read a column at the record offset that the type flags
\* of the columns before it give (3 or 1 for the first, then 4 for string,
\* int or float and 1 otherwise), whatever the names of those columns are.
C23_Layout ==
    /\ HasOneFraudScore(fr, fres) =>
          fres.record.fraud_score[2] = Some(SpecOneFraudScore(fr, fres.leaf[1]))
    /\ HasOneFraudScore(mr, mres) =>
          MemRecord_fraud_score(file, mr, mres.leaf[1], 1)
              = Ok(Some(SpecOneFraudScore(mr, mres.leaf[1])))

\* bit q of the address of the call, the most significant bit being bit 0
SpecBit(q) == (arg.addr.octets[q \div 8 + 1] \div Pow2(7 - (q % 8))) % 2 = 1

SpecLength == IF arg.addr.v6 THEN 128 ELSE 32

\* the set positions at or before the index of the call
SpecOnes == {q \in 0..arg.index : SpecBit(q)}

\* C24: the backtrack step, resident and streaming, on an address of length
\* L and an index i: if no bit of 0..i is set it reports no position and
\* leaves the address as it was; else it reports the largest set position
\* k <= i, leaves bits 0..k-1 as they were, clears bit k and sets every bit
\* k+1..L-1.
C24_Backtrack ==
    Decoded =>
        /\ ret.tag = "ok"
        /\ Len(ret.after) = SpecLength
        /\ IF SpecOnes = {}
           THEN /\ ret.index = None
                /\ \A q \in 0..(SpecLength - 1) : ret.after[q + 1] = SpecBit(q)
           ELSE LET k == CHOOSE k \in SpecOnes : \A q \in SpecOnes : q <= k
                IN /\ ret.index = Some(k)
                   /\ \A q \in 0..(SpecLength - 1) :
                         ret.after[q + 1] = (IF q < k THEN SpecBit(q) ELSE q > k)

\* C25: the streaming walker takes a selected child value v with
\* 0 < v < tree_start for a hole, as it takes 0: it reads no node at an offset
\* below tree_start other than 0, and on a blacklist file the first such hole
\* ends fetch with the not-found error after no further node read.
C25_LowIsHole ==
    (FileDone /\ fr.state = "ok") =>
        /\ \A o \in fw.read_at : ~(0 < o /\ o < fr.tree_start)
        /\ (fr.is_blacklist /\ fw.first_hole # None) =>
              /\ fres.tag = "err"
              /\ fres.err = "EID10"
              /\ fw.reads = fw.first_hole[1]

\* C26 as claimed: in the streaming walker the inner `if file_position == 0
\* { break; }` is never executed, on any file, blacklist or not, and any address.
C26_DeadBreak == FileDone => ~fw.broke

\* C26: the inner `if file_position == 0 { break; }` of the streaming walker is
\* executed on blacklist files only, when the selected child value is 0, and
\* fetch then ends with the not-found error; on a non-blacklist file it never is.
C26_BreakOnBlacklistOnly ==
    (FileDone /\ fw.broke) =>
        /\ fr.is_blacklist
        /\ fw.node = 0
        /\ fw.first_hole = Some(fw.reads)
        /\ fres.tag = "err"
        /\ fres.err = "EID10"

C26_Witness == FileDone /\ fw.broke /\ fr.is_blacklist /\ fw.reads = 2

\* the 8 bytes of a node at offset o lie inside the tree body of reader r
InTreeBody(r, o) == r.tree_start + TREE_HEADER_LEN <= o /\ o + NODE_LEN <= r.tree_end

\* C27: every 8-byte node read of either walker, the root and the reads after
\* a backtrack included, lies inside the tree body: at or after tree_start + 5
\* and ending at or before tree_end.
C27_NodeReads ==
    /\ (FileDone /\ fr.state = "ok") => \A o \in fw.read_at : InTreeBody(fr, o)
    /\ (MemDone /\ mr.state = "ok") => \A o \in mw.read_at : InTreeBody(mr, o)

\* bit q of the address as the streaming and the resident walker hold it
FileBits(w) == [q \in 0..(Len(w.bits) - 1) |-> w.bits[q + 1]]
MemBits(w) == [q \in 0..(w.bits.len - 1) |-> AddressBits_position(w.bits, q)]

\* the node at depth `depth` on the path that bits b[i..] select from node o
\* at depth i, if the path goes through child pointers to nodes that far
RECURSIVE PathNode(_, _, _, _, _)
PathNode(r, o, b, i, depth) ==
    IF i = depth THEN Some(o)
    ELSE IF o + NODE_LEN > Len(file) THEN None
    ELSE LET v == ChildAt(o, IF b[i] THEN 1 ELSE 0)
         IN IF v < r.tree_start \/ v >= r.tree_end THEN None
            ELSE PathNode(r, v, b, i + 1, depth)

\* the locals w stand on the path of the address b
OnPath(r, w, b) ==
    /\ PathNode(r, r.tree_start + TREE_HEADER_LEN, b, 0, w.position) = Some(w.node)
    /\ \A j \in 0..(w.position - 1) :
          /\ j \in DOMAIN w.previous
          /\ PathNode(r, r.tree_start + TREE_HEADER_LEN, b, 0, j) = Some(w.previous[j])

\* C28: at the start of every loop iteration of both walkers the node offset
\* is the node reached from the root by bits 0..bit_index-1 of the current
\* (possibly rewritten) address, and previous[j] is the node entered at depth
\* j of that path, so a backtrack reads a node recorded in the same call.
C28_OnPath ==
    /\ fres.tag = "running" => OnPath(fr, fw, FileBits(fw))
    /\ mres.tag = "running" => OnPath(mr, mw, MemBits(mw))

\* the bytes that the columns of reader r need in a leaf: the head (3 or 1)
\* and the width of every column by its type flags
SpecLayoutWidth(r) ==
    IF r.columns = <<>> THEN (IF r.binary_data THEN 3 ELSE 1)
    ELSE SpecLayoutOffset(r.columns, Len(r.columns), r.binary_data)
         + SpecWidth(r.columns[Len(r.columns)].record_type)

\* the walk of reader r came to a leaf of a file whose columns need more
\* bytes than record_bytes
OnNarrowLeaf(r, w) ==
    /\ r.state = "ok"
    /\ w.leaf # None
    /\ SpecLayoutWidth(r) > r.record_bytes

\* C29: a file whose column layout is wider than record_bytes is rejected
\* with an error, at construction or when a fetch comes to a leaf, in both
\* readers: no record is decoded past p + record_bytes and no call aborts.
C29_InsideRecord ==
    /\ (FileDone /\ OnNarrowLeaf(fr, fw)) => fres.tag = "err"
    /\ (MemDone /\ OnNarrowLeaf(mr, mw)) => mres.tag = "err"

\* bit q of the address asked for, the most significant bit being bit 0
IpBit(q) == (ip.octets[(q \div 8) + 1] \div Pow2(7 - (q % 8))) % 2

\* One step of the search for the leaf of the greatest address at or below
\* ip, in a tree whose nodes all have a child that is no hole.  The search
\* goes down from the root at depth 0.  While it is `tight` it follows the
\* bits of ip and remembers in `back` the left child it passed by at a set
\* bit; at a hole it turns to `back` and from there takes the right child
\* wherever that is no hole.  s = [o, i, tight, back, leaf, done].
BelowStep(r, s) ==
    IF s.i >= Len(ip.octets) * 8 THEN [s EXCEPT !.done = TRUE]
    ELSE LET left == ChildAt(s.o, 0)
             right == ChildAt(s.o, 1)
             v == IF s.tight THEN (IF IpBit(s.i) = 1 THEN right ELSE left)
                  ELSE (IF right >= r.tree_start THEN right ELSE left)
             back == IF s.tight /\ IpBit(s.i) = 1 /\ left >= r.tree_start
                     THEN Some(<<left, s.i + 1>>) ELSE s.back
         IN IF v >= r.tree_end THEN [s EXCEPT !.leaf = Some(v), !.done = TRUE]
            ELSE IF v >= r.tree_start THEN [s EXCEPT !.o = v, !.i = @ + 1, !.back = back]
            ELSE IF ~s.tight \/ back = None THEN [s EXCEPT !.done = TRUE]
            ELSE IF back[1][1] >= r.tree_end
            THEN [s EXCEPT !.leaf = Some(back[1][1]), !.done = TRUE]
            ELSE [s EXCEPT !.o = back[1][1], !.i = back[1][2], !.tight = FALSE]

\* n steps of the search, split in halves
RECURSIVE BelowLoop(_, _, _)
BelowLoop(r, s, n) ==
    IF s.done THEN s
    ELSE IF n = 1 THEN BelowStep(r, s)
    ELSE BelowLoop(r, BelowLoop(r, s, n \div 2), n - (n \div 2))

\* the leaf of the greatest address at or below ip in the tree of reader r
RecordAtOrBelow(r) ==
    BelowLoop(r, [o |-> r.tree_start + TREE_HEADER_LEN, i |-> 0, tight |-> TRUE,
                  back |-> None, leaf |-> None, done |-> FALSE],
              2 * Len(ip.octets) * 8 + 1).leaf

\* every node of the tree of reader r has a child that is no hole
NoDeadEnd(r) ==
    \A n \in 0..(((r.tree_end - r.tree_start - TREE_HEADER_LEN) \div NODE_LEN) - 1) :
        LET o == r.tree_start + TREE_HEADER_LEN + NODE_LEN * n
        IN ChildAt(o, 0) >= r.tree_start \/ ChildAt(o, 1) >= r.tree_start

\* reader r is asked for an address that has a record at or below it, on a
\* non-blacklist file of its family whose nodes all have a way on
HasRecordBelow(r) ==
    /\ r.state = "ok"
    /\ ~r.is_blacklist
    /\ ip.v6 = r.is_v6
    /\ NoDeadEnd(r)
    /\ RecordAtOrBelow(r) # None

\* C30: the ceiling of 257 iterations causes no false miss: on a
\* non-blacklist tree no deeper than the address is long, in which every
\* node has a child that is no hole, fetch returns the record at or below
\* the address whenever there is one, in both readers.
C30_NoFalseMiss ==
    /\ (FileDone /\ HasRecordBelow(fr)) =>
          /\ fres.tag = "ok"
          /\ fres.leaf = RecordAtOrBelow(fr)
    /\ (MemDone /\ HasRecordBelow(mr)) =>
          /\ mres.tag = "ok"
          /\ mres.leaf = RecordAtOrBelow(mr)

====
